---------------------------- MODULE Spec2Model ----------------------------
(***************************************************************************)
(* A model of the simple-nes emulator core: the 6502 CPU (src/src/cpu.rs,  *)
(* cpu/addressing_mode.rs, cpu/instruction.rs), the CPU bus, the DMA unit  *)
(* and the master clock (src/src/system.rs), with the devices the bus      *)
(* reaches (RAM, controller, APU interrupt flags, cartridge with the NROM  *)
(* and MMC3 mappers).  The PPU (device/ppu.rs) is not among the sources;   *)
(* the few PPU operations the system calls are modelled from the           *)
(* specification text.                                                     *)
(*                                                                         *)
(* Bytes are integers 0..255 and addresses integers 0..65535; every        *)
(* wrapping operation of the code is an explicit modulus.                  *)
(***************************************************************************)
EXTENDS Integers, Sequences, FiniteSets, TLC

\* ------------------------------------------------------------------------
\* Bounds of the model
\* ------------------------------------------------------------------------

\* the largest cycle count passed to one call of System::clock
MaxCall == 2

\* device events (vblank start, scanline tick, frame-counter wrap, DMC byte)
\* and calls of System::reset in one behaviour
MaxEvents == 2

\* writes through the PPU bus in one behaviour
MaxWrites == 2

\* CPU writes to an MMC1 cartridge in one behaviour: two loads of five
\* writes and one write more
MaxLoadWrites == 11

\* calls of Apu::clock in one behaviour: two periods of the frame sequencer
\* in 5-step mode and one call more
MaxApuClocks == 74565

\* register writes to the APU in one behaviour
MaxLengthWrites == 2

\* half-frame clocks of a length counter after its load: one more than the
\* largest entry of the load table
MaxHalfClocks == 255

\* writes of APU registers and calls of Apu::clock in one behaviour
MaxApuOps == 5

\* capacity of the sample buffer
MaxBuffer == 2

\* calls of Apu::clock that may push a sample in one behaviour: the fifth
\* sample is due in call 163
MaxSampleClocks == 170

\* master cycles counted in one behaviour
MaxCycles == 24

\* the emulation thread fills the sample buffer to this many samples
\* before it sleeps (SAMPLE_RATE / 67 in main.rs, scaled down)
HostFill == 3

\* samples pushed by one call of System::clock in run_emu (scaled down)
HostSamplesPerCall == 2

\* capacity of the sample buffer of main.rs (SAMPLE_RATE / 20, scaled down)
HostCapacity == 8

\* stack operations (push, push_16, pop, pop_16) in one behaviour
MaxStackOps == 2

\* operations on an MMC3 cartridge (register writes, scanline ticks,
\* interrupt acknowledgements, resets) in one behaviour
MaxMmc3Ops == 5

\* CPU writes to the DMC registers and to 0x4015 in one behaviour
MaxDmcWrites == 3

\* writes to 0x4017, and calls of Apu::clock, in one behaviour of the frame
\* sequencer under mode switches
MaxSwitches == 2
MaxSeqClocks == 8

\* CPU writes to the MMC3 bank registers in one behaviour of the CHR windows
MaxChrWrites == 4

\* master cycles in one behaviour of the instruction-cost programs
MaxCostClocks == 24

\* register writes and calls of Sweep::clock in one behaviour of the sweep units
MaxSweepOps == 4

\* controller operations in one behaviour: a button update, the two
\* writes of a strobe, a button update and eight reads
MaxPadOps == 12

\* CPU writes to a cartridge and mapper resets in one behaviour: the five
\* writes of an MMC1 load and a reset
MaxMapperOps == 6

\* scanline ticks of the MMC3 counter in one behaviour: one more than the
\* 256 ticks the largest reload value needs
MaxTicks == 257

\* ------------------------------------------------------------------------
\* Bit operations on unsigned integers
\* ------------------------------------------------------------------------

RECURSIVE BitAnd(_, _)
BitAnd(a, b) ==
    IF a = 0 \/ b = 0 THEN 0
    ELSE (a % 2) * (b % 2) + 2 * BitAnd(a \div 2, b \div 2)

RECURSIVE BitOr(_, _)
BitOr(a, b) ==
    IF a = 0 THEN b
    ELSE IF b = 0 THEN a
    ELSE (IF (a % 2) + (b % 2) > 0 THEN 1 ELSE 0) + 2 * BitOr(a \div 2, b \div 2)

RECURSIVE BitXor(_, _)
BitXor(a, b) ==
    IF a = 0 THEN b
    ELSE IF b = 0 THEN a
    ELSE ((a + b) % 2) + 2 * BitXor(a \div 2, b \div 2)

\* !x on a u8
Not8(a) == 255 - a

\* x << n and x >> n on a u8
Shl8(a, n) == (a * (2 ^ n)) % 256
Shr(a, n) == a \div (2 ^ n)

\* u8 / u16 wrapping arithmetic
Wrap8(a) == a % 256
Wrap16(a) == a % 65536

\* u16::from_le_bytes([low, high]) and its inverse
from_le_bytes(low, high) == high * 256 + low
LowByte(w) == w % 256
HighByte(w) == w \div 256

\* `value as i8 as i16`, then u16::wrapping_add_signed
wrapping_add_signed(base, offset) ==
    Wrap16(base + (IF offset >= 128 THEN offset - 256 ELSE offset))

BoolToInt(b) == IF b THEN 1 ELSE 0

\* ------------------------------------------------------------------------
\* Byte stores.  A store is a function from the addresses that hold a
\* non-zero byte; every other address holds 0 (vec![0; n]).
\* ------------------------------------------------------------------------

EmptyMem == << >>

MemRead(mem, a) == IF a \in DOMAIN mem THEN mem[a] ELSE 0

MemWrite(mem, a, d) ==
    IF d = 0
    THEN [x \in (DOMAIN mem) \ {a} |-> mem[x]]
    ELSE [x \in (DOMAIN mem) \cup {a} |-> IF x = a THEN d ELSE mem[x]]

\* device.rs: Ram
Ram_new(p2_size) == [addr_mask |-> (2 ^ p2_size) - 1, mem |-> EmptyMem]
Ram_read(ram, addr) == MemRead(ram.mem, BitAnd(addr, ram.addr_mask))
Ram_write(ram, addr, data) ==
    [ram EXCEPT !.mem = MemWrite(@, BitAnd(addr, ram.addr_mask), data)]

\* ------------------------------------------------------------------------
\* system.rs: constants of the CPU bus map
\* ------------------------------------------------------------------------

RAM_START == 0
RAM_END == 8191
PPU_START == 8192
PPU_END == 16383
APU_START == 16384
APU_END == 16403
DMA == 16404
APU_STATUS_CONTROL == 16405
CONTROLLER_A == 16406
CONTROLLER_B == 16407
APU_FRAME_COUNTER == 16407
PRG_START == 16416
PRG_END == 65535
PALETTE_P2_SIZE == 5
CHR_START == 0
CHR_END == 8191
VRAM_START == 8192
VRAM_END == 16127
PALETTE_START == 16128
PALETTE_END == 16383
RAM_P2_SIZE == 11

\* cpu.rs: constants
FLAG_C == 1
FLAG_Z == 2
FLAG_I == 4
FLAG_D == 8
FLAG_V == 64
FLAG_N == 128
B_FLAG == 16
U_FLAG == 32
STACK_HIGH_BYTE == 1
IRQ_VECTOR == 65534
NMI_VECTOR == 65530
RESET_VECTOR == 65532

\* cartridge.rs: constants
PRG_BANK_SIZE == 16384
CHR_BANK_SIZE == 8192


\* ------------------------------------------------------------------------
\* device/controller.rs
\* ------------------------------------------------------------------------

PortA == 0
PortB == 1

Controller_new == [controller |-> <<0, 0>>, buffer |-> <<0, 0>>, latch |-> FALSE]

\* Controller::update_state that loads the shift registers as well
Controller_update_state_mutant(c, controller_a, controller_b) ==
    [c EXCEPT !.buffer = <<controller_a, controller_b>>,
              !.controller = <<controller_a, controller_b>>]

Controller_update_state(c, controller_a, controller_b) ==
    [c EXCEPT !.buffer = <<controller_a, controller_b>>]

Controller_read_mutant(c, port) ==
    LET c1 == IF c.latch
              THEN [c EXCEPT !.controller[port + 1] = c.buffer[port + 1]]
              ELSE c
        result == Shr(c1.controller[port + 1], 7)
    IN [c |-> [c1 EXCEPT !.controller[port + 1] = Shr(@, 1)], v |-> result]

\* returns the controller after the read and the byte read
Controller_read(c, port) ==
    LET c1 == IF c.latch
              THEN [c EXCEPT !.controller[port + 1] = c.buffer[port + 1]]
              ELSE c
        result == Shr(c1.controller[port + 1], 7)
    IN [c |-> [c1 EXCEPT !.controller[port + 1] = Shl8(@, 1)], v |-> result]

Controller_write(c, data) ==
    IF BitAnd(data, 1) # 0 THEN [c EXCEPT !.latch = TRUE]
    ELSE IF c.latch
         THEN [c EXCEPT !.controller = <<c.buffer[1], c.buffer[2]>>, !.latch = FALSE]
         ELSE c

\* ------------------------------------------------------------------------
\* cartridge.rs: the mappers and the cartridge
\* ------------------------------------------------------------------------

NROM_ID == 0
MMC1_ID == 1
CPU_CLOCK_SPEED == 1789773
SAMPLE_RATE == 44100
DMC_BASE_ADDRESS == 49152
DMC_WRAP_ADDRESS == 32768
UXROM_ID == 2
CNROM_ID == 3
MMC3_ID == 4
AXROM_ID == 7
GXROM_ID == 66

\* the mapper ids get_mapper_from_id knows
MapperIds == {NROM_ID, MMC1_ID, UXROM_ID, CNROM_ID, MMC3_ID, AXROM_ID, GXROM_ID}

NRom_new(prg_banks) ==
    [id |-> NROM_ID, mask |-> IF prg_banks > 1 THEN 32767 ELSE 16383]

Mmc1_new(prg_banks) ==
    [id |-> MMC1_ID,
     load |-> 0,
     load_count |-> 0,
     control |-> 28,
     prg_bank_32 |-> 0,
     chr_bank_8 |-> 0,
     prg_bank_16_lo |-> 0,
     prg_bank_16_hi |-> prg_banks - 1,
     chr_bank_4_lo |-> 0,
     chr_bank_4_hi |-> 0,
     prg_banks |-> prg_banks,
     mirror |-> "Horizontal",
     prg_ram |-> EmptyMem]

UxRom_new(prg_banks) ==
    [id |-> UXROM_ID, prg_bank_lo |-> 0, prg_bank_hi |-> prg_banks - 1]

CNRom_new(prg_banks) ==
    [id |-> CNROM_ID, mask |-> IF prg_banks > 1 THEN 32767 ELSE 16383,
     chr_bank |-> 0]

AxRom_new == [id |-> AXROM_ID, prg_bank |-> 0, mirror |-> "OneScreenLow"]

GxRom_new == [id |-> GXROM_ID, prg_bank |-> 0, chr_bank |-> 0]

Mmc3_new(prg_banks) ==
    [id |-> MMC3_ID,
     target_reg |-> 0,
     register |-> [i \in 0..7 |-> 0],
     prg_bank |-> [i \in 0..3 |->
                     CASE i = 0 -> 0
                       [] i = 1 -> 8192
                       [] i = 2 -> (prg_banks * 2 - 2) * 8192
                       [] i = 3 -> (prg_banks * 2 - 1) * 8192],
     chr_bank |-> [i \in 0..7 |-> 0],
     interrupt_counter |-> 0,
     interrupt_step |-> 0,
     interrupt_active |-> FALSE,
     interrupt_enabled |-> FALSE,
     prg_bank_mode |-> FALSE,
     chr_inversion |-> FALSE,
     prg_banks |-> prg_banks,
     mirror |-> "Horizontal",
     prg_ram |-> EmptyMem]

Mapper_interrupt_state(mp) == IF mp.id = MMC3_ID THEN mp.interrupt_active ELSE FALSE

Mapper_reset_interrupt(mp) ==
    IF mp.id = MMC3_ID THEN [mp EXCEPT !.interrupt_active = FALSE] ELSE mp

Mapper_on_scanline_mutant(mp) ==
    IF mp.id = MMC3_ID
    THEN LET counter == IF mp.interrupt_counter = 0
                        THEN mp.interrupt_step
                        ELSE mp.interrupt_counter - 1
         IN [mp EXCEPT !.interrupt_counter = counter,
                       !.interrupt_active = IF mp.interrupt_counter = 0
                                               /\ mp.interrupt_enabled
                                            THEN TRUE ELSE @]
    ELSE mp

Mapper_on_scanline(mp) ==
    IF mp.id = MMC3_ID
    THEN LET counter == IF mp.interrupt_counter = 0
                        THEN mp.interrupt_step
                        ELSE mp.interrupt_counter - 1
         IN [mp EXCEPT !.interrupt_counter = counter,
                       !.interrupt_active = IF counter = 0 /\ mp.interrupt_enabled
                                            THEN TRUE ELSE @]
    ELSE mp

\* Mapper::mirror: Some(mode), or "None"
Mapper_mirror(mp) ==
    IF mp.id \in {MMC1_ID, MMC3_ID, AXROM_ID} THEN mp.mirror ELSE "None"

Mmc1_cpu_read(mp, addr) ==
    IF addr >= 24576 /\ addr <= 32767
    THEN [kind |-> "Data", v |-> MemRead(mp.prg_ram, BitAnd(addr, 8191))]
    ELSE IF addr >= 32768
    THEN IF BitAnd(mp.control, 8) # 0
         THEN IF addr <= 49151
              THEN [kind |-> "Address",
                    v |-> mp.prg_bank_16_lo * PRG_BANK_SIZE + BitAnd(addr, 16383)]
              ELSE [kind |-> "Address",
                    v |-> mp.prg_bank_16_hi * PRG_BANK_SIZE + BitAnd(addr, 16383)]
         ELSE [kind |-> "Address",
               v |-> mp.prg_bank_32 * 2 * PRG_BANK_SIZE + BitAnd(addr, 32767)]
    ELSE [kind |-> "None", v |-> 0]

UxRom_cpu_read(mp, addr) ==
    IF addr >= 32768 /\ addr <= 49151
    THEN [kind |-> "Address",
          v |-> mp.prg_bank_lo * PRG_BANK_SIZE + BitAnd(addr, 16383)]
    ELSE IF addr >= 49152
    THEN [kind |-> "Address",
          v |-> mp.prg_bank_hi * PRG_BANK_SIZE + BitAnd(addr, 16383)]
    ELSE [kind |-> "None", v |-> 0]

\* AxRom::cpu_read and GxRom::cpu_read
XxRom_cpu_read(mp, addr) ==
    IF addr >= 32768
    THEN [kind |-> "Address",
          v |-> mp.prg_bank * 2 * PRG_BANK_SIZE + BitAnd(addr, 32767)]
    ELSE [kind |-> "None", v |-> 0]

\* MapperReadResult: Data(byte), Address(Some(offset)) or Address(None)
Mapper_cpu_read(mp, addr) ==
    IF mp.id = MMC3_ID
    THEN IF addr >= 24576 /\ addr <= 32767
         THEN [kind |-> "Data", v |-> MemRead(mp.prg_ram, BitAnd(addr, 8191))]
         ELSE IF addr >= 32768
              THEN [kind |-> "Address",
                    v |-> mp.prg_bank[BitAnd(Shr(addr, 13), 3)] + BitAnd(addr, 8191)]
              ELSE [kind |-> "None", v |-> 0]
    ELSE IF mp.id = MMC1_ID THEN Mmc1_cpu_read(mp, addr)
    ELSE IF mp.id = UXROM_ID THEN UxRom_cpu_read(mp, addr)
    ELSE IF mp.id \in {AXROM_ID, GXROM_ID} THEN XxRom_cpu_read(mp, addr)
    ELSE IF addr >= 32768
         THEN [kind |-> "Address", v |-> BitAnd(addr, mp.mask)]
         ELSE [kind |-> "None", v |-> 0]

Mmc1_ppu_read(mp, addr) ==
    IF BitAnd(mp.control, 16) # 0
    THEN IF addr <= 4095
         THEN mp.chr_bank_4_lo * 4096 + BitAnd(addr, 4095)
         ELSE mp.chr_bank_4_hi * 4096 + BitAnd(addr, 4095)
    ELSE mp.chr_bank_8 * CHR_BANK_SIZE + BitAnd(addr, 8191)

\* Mapper::ppu_read: every mapper answers Address(Some(offset)) at
\* 0x0000..0x1FFF and Address(None) above
Mapper_ppu_read(mp, addr) ==
    IF addr <= 8191
    THEN [kind |-> "Address",
          v |-> CASE mp.id = MMC1_ID -> Mmc1_ppu_read(mp, addr)
                  [] mp.id \in {CNROM_ID, GXROM_ID} ->
                        mp.chr_bank * CHR_BANK_SIZE + addr
                  [] mp.id = MMC3_ID ->
                        mp.chr_bank[BitAnd(Shr(addr, 10), 7)] + BitAnd(addr, 1023)
                  [] OTHER -> addr]
    ELSE [kind |-> "None", v |-> 0]

Mmc3_bank_update(mp) ==
    LET r == mp.register
        last2 == (mp.prg_banks * 2 - 2) * 8192
        chr == IF mp.chr_inversion
               THEN [i \in 0..7 |->
                       CASE i = 0 -> r[2] * 1024
                         [] i = 1 -> r[3] * 1024
                         [] i = 2 -> r[4] * 1024
                         [] i = 3 -> r[5] * 1024
                         [] i = 4 -> BitAnd(r[0], 254) * 1024
                         [] i = 5 -> r[0] * 1024 + 1024
                         [] i = 6 -> BitAnd(r[1], 254) * 1024
                         [] i = 7 -> r[1] * 1024 + 1024]
               ELSE [i \in 0..7 |->
                       CASE i = 0 -> BitAnd(r[0], 254) * 1024
                         [] i = 1 -> r[0] * 1024 + 1024
                         [] i = 2 -> BitAnd(r[1], 254) * 1024
                         [] i = 3 -> r[1] * 1024 + 1024
                         [] i = 4 -> r[2] * 1024
                         [] i = 5 -> r[3] * 1024
                         [] i = 6 -> r[4] * 1024
                         [] i = 7 -> r[5] * 1024]
        prg == [i \in 0..3 |->
                  CASE i = 0 -> IF mp.prg_bank_mode THEN last2
                                ELSE BitAnd(r[6], 63) * 8192
                    [] i = 1 -> BitAnd(r[7], 63) * 8192
                    [] i = 2 -> IF mp.prg_bank_mode THEN BitAnd(r[6], 63) * 8192
                                ELSE last2
                    [] i = 3 -> (mp.prg_banks * 2 - 1) * 8192]
    IN [mp EXCEPT !.chr_bank = chr, !.prg_bank = prg]

\* Mmc3_cpu_write whose disable write leaves a pending interrupt pending
Mmc3_cpu_write_mutant(mp, addr, data) ==
    IF addr >= 24576 /\ addr <= 32767
    THEN [mp EXCEPT !.prg_ram = MemWrite(@, BitAnd(addr, 8191), data)]
    ELSE IF addr < 32768 THEN mp
    ELSE IF addr <= 40959
    THEN IF BitAnd(addr, 1) = 0
         THEN [mp EXCEPT !.target_reg = BitAnd(data, 7),
                         !.prg_bank_mode = (BitAnd(data, 64) # 0),
                         !.chr_inversion = (BitAnd(data, 128) # 0)]
         ELSE Mmc3_bank_update([mp EXCEPT !.register[mp.target_reg] = data])
    ELSE IF addr <= 49151
    THEN IF BitAnd(addr, 1) = 0
         THEN [mp EXCEPT !.mirror = IF BitAnd(data, 1) # 0
                                    THEN "Horizontal" ELSE "Vertical"]
         ELSE mp
    ELSE IF addr <= 57343
    THEN IF BitAnd(addr, 1) = 0
         THEN [mp EXCEPT !.interrupt_step = data]
         ELSE [mp EXCEPT !.interrupt_counter = 0]
    ELSE IF BitAnd(addr, 1) = 0
         THEN [mp EXCEPT !.interrupt_enabled = FALSE]
         ELSE [mp EXCEPT !.interrupt_enabled = TRUE]

Mmc3_cpu_write(mp, addr, data) ==
    IF addr >= 24576 /\ addr <= 32767
    THEN [mp EXCEPT !.prg_ram = MemWrite(@, BitAnd(addr, 8191), data)]
    ELSE IF addr < 32768 THEN mp
    ELSE IF addr <= 40959
    THEN IF BitAnd(addr, 1) = 0
         THEN [mp EXCEPT !.target_reg = BitAnd(data, 7),
                         !.prg_bank_mode = (BitAnd(data, 64) # 0),
                         !.chr_inversion = (BitAnd(data, 128) # 0)]
         ELSE Mmc3_bank_update([mp EXCEPT !.register[mp.target_reg] = data])
    ELSE IF addr <= 49151
    THEN IF BitAnd(addr, 1) = 0
         THEN [mp EXCEPT !.mirror = IF BitAnd(data, 1) # 0
                                    THEN "Horizontal" ELSE "Vertical"]
         ELSE mp
    ELSE IF addr <= 57343
    THEN IF BitAnd(addr, 1) = 0
         THEN [mp EXCEPT !.interrupt_step = data]
         ELSE [mp EXCEPT !.interrupt_counter = 0]
    ELSE IF BitAnd(addr, 1) = 0
         THEN [mp EXCEPT !.interrupt_active = FALSE, !.interrupt_enabled = FALSE]
         ELSE [mp EXCEPT !.interrupt_enabled = TRUE]

\* the fifth write of a load: the register bits 13-14 of the address name
\* takes the value shifted in
Mmc1_commit(mp, addr) ==
    LET target_reg == BitAnd(Shr(addr, 13), 3)
        control == BitAnd(mp.load, 31)
        prg_mode == BitAnd(Shr(mp.control, 2), 3)
    IN CASE target_reg = 0 ->
              [mp EXCEPT !.control = control,
                         !.mirror = CASE BitAnd(control, 3) = 0 -> "OneScreenLow"
                                      [] BitAnd(control, 3) = 1 -> "OneScreenHigh"
                                      [] BitAnd(control, 3) = 2 -> "Vertical"
                                      [] OTHER -> "Horizontal"]
         [] target_reg = 1 ->
              IF BitAnd(mp.control, 16) # 0
              THEN [mp EXCEPT !.chr_bank_4_lo = BitAnd(mp.load, 31)]
              ELSE [mp EXCEPT !.chr_bank_8 = BitAnd(mp.load, 30)]
         [] target_reg = 2 ->
              IF BitAnd(mp.control, 16) # 0
              THEN [mp EXCEPT !.chr_bank_4_hi = BitAnd(mp.load, 31)]
              ELSE mp
         [] OTHER ->
              IF prg_mode <= 1
              THEN [mp EXCEPT !.prg_bank_32 = Shr(BitAnd(mp.load, 14), 1)]
              ELSE IF prg_mode = 2
              THEN [mp EXCEPT !.prg_bank_16_lo = 0,
                              !.prg_bank_16_hi = BitAnd(mp.load, 15)]
              ELSE [mp EXCEPT !.prg_bank_16_lo = BitAnd(mp.load, 15),
                              !.prg_bank_16_hi = mp.prg_banks - 1]

Mmc1_cpu_write_mutant(mp, addr, data) ==
    IF addr >= 24576 /\ addr <= 32767
    THEN [mp EXCEPT !.prg_ram = MemWrite(@, BitAnd(addr, 8191), data)]
    ELSE IF addr < 32768 THEN mp
    ELSE IF BitAnd(data, 128) # 0
    THEN [mp EXCEPT !.load = 0, !.load_count = 0, !.control = BitOr(@, 12)]
    ELSE IF mp.load_count + 1 = 5
    THEN [Mmc1_commit([mp EXCEPT !.load = BitOr(Shr(@, 1), Shl8(BitAnd(data, 1), 4))],
                      40960)
            EXCEPT !.load = 0, !.load_count = 0]
    ELSE [mp EXCEPT !.load = BitOr(Shr(@, 1), Shl8(BitAnd(data, 1), 4)),
                    !.load_count = @ + 1]

Mmc1_cpu_write(mp, addr, data) ==
    IF addr >= 24576 /\ addr <= 32767
    THEN [mp EXCEPT !.prg_ram = MemWrite(@, BitAnd(addr, 8191), data)]
    ELSE IF addr < 32768 THEN mp
    ELSE IF BitAnd(data, 128) # 0
    THEN [mp EXCEPT !.load = 0, !.load_count = 0, !.control = BitOr(@, 12)]
    ELSE IF mp.load_count + 1 = 5
    THEN [Mmc1_commit([mp EXCEPT !.load = BitOr(Shr(@, 1), Shl8(BitAnd(data, 1), 4))],
                      addr)
            EXCEPT !.load = 0, !.load_count = 0]
    ELSE [mp EXCEPT !.load = BitOr(Shr(@, 1), Shl8(BitAnd(data, 1), 4)),
                    !.load_count = @ + 1]

Mapper_cpu_write(mp, addr, data) ==
    IF mp.id = MMC3_ID THEN Mmc3_cpu_write(mp, addr, data)
    ELSE IF mp.id = MMC1_ID THEN Mmc1_cpu_write(mp, addr, data)
    ELSE IF addr < 32768 THEN mp
    ELSE CASE mp.id = UXROM_ID -> [mp EXCEPT !.prg_bank_lo = BitAnd(data, 15)]
           [] mp.id = CNROM_ID -> [mp EXCEPT !.chr_bank = BitAnd(data, 3)]
           [] mp.id = AXROM_ID ->
                [mp EXCEPT !.prg_bank = BitAnd(data, 7),
                           !.mirror = IF BitAnd(data, 16) = 0
                                      THEN "OneScreenLow" ELSE "OneScreenHigh"]
           [] mp.id = GXROM_ID ->
                [mp EXCEPT !.chr_bank = BitAnd(data, 3),
                           !.prg_bank = BitAnd(Shr(data, 4), 3)]
           [] OTHER -> mp

Mmc3_reset(mp) ==
    [Mmc3_new(mp.prg_banks) EXCEPT !.prg_ram = mp.prg_ram]

\* Mmc1::reset leaves the mirror mode and the PRG-RAM as they are
Mmc1_reset(mp) ==
    [Mmc1_new(mp.prg_banks) EXCEPT !.mirror = mp.mirror, !.prg_ram = mp.prg_ram]

Mapper_reset(mp) ==
    IF mp.id = MMC3_ID THEN Mmc3_reset(mp)
    ELSE CASE mp.id = MMC1_ID -> Mmc1_reset(mp)
           [] mp.id = UXROM_ID -> [mp EXCEPT !.prg_bank_lo = 0]
           [] mp.id = CNROM_ID -> [mp EXCEPT !.chr_bank = 0]
           [] mp.id = AXROM_ID -> AxRom_new
           [] mp.id = GXROM_ID -> GxRom_new
           [] OTHER -> mp

get_mapper_from_id(id, prg_banks) ==
    IF id = MMC3_ID THEN Mmc3_new(prg_banks)
    ELSE CASE id = MMC1_ID -> Mmc1_new(prg_banks)
           [] id = UXROM_ID -> UxRom_new(prg_banks)
           [] id = CNROM_ID -> CNRom_new(prg_banks)
           [] id = AXROM_ID -> AxRom_new
           [] id = GXROM_ID -> GxRom_new
           [] OTHER -> NRom_new(prg_banks)

\* load_cartridge: the cartridge of an image with the given header fields.
\* chr_banks = 0 gives 8 KiB of character RAM; bit 0 of the flags byte
\* gives the header's mirror mode.
load_cartridge(id, prg_banks, chr_banks, vertical, prg_rom) ==
    [mapper |-> get_mapper_from_id(id, prg_banks),
     prg_rom |-> prg_rom,
     prg_size |-> prg_banks * PRG_BANK_SIZE,
     chr_rom |-> EmptyMem,
     chr_size |-> IF chr_banks = 0 THEN CHR_BANK_SIZE ELSE chr_banks * CHR_BANK_SIZE,
     chr_is_ram |-> (chr_banks = 0),
     mirror |-> IF vertical THEN "Vertical" ELSE "Horizontal"]

\* a cartridge with character RAM and horizontal mirroring in its header
Cartridge_new(id, prg_banks, prg_rom) ==
    load_cartridge(id, prg_banks, 0, FALSE, prg_rom)

Cartridge_mirror(cart) ==
    IF Mapper_mirror(cart.mapper) = "None" THEN cart.mirror
    ELSE Mapper_mirror(cart.mapper)

\* Option<u8>: some = FALSE is None.  An offset beyond the program ROM is
\* an out-of-bounds index, which panics.
Cartridge_cpu_read(cart, addr) ==
    LET r == Mapper_cpu_read(cart.mapper, addr)
    IN IF r.kind = "Data" THEN [some |-> TRUE, v |-> r.v, panic |-> FALSE]
       ELSE IF r.kind = "Address"
            THEN IF r.v < cart.prg_size
                 THEN [some |-> TRUE, v |-> MemRead(cart.prg_rom, r.v), panic |-> FALSE]
                 ELSE [some |-> FALSE, v |-> 0, panic |-> TRUE]
            ELSE [some |-> FALSE, v |-> 0, panic |-> FALSE]

Cartridge_cpu_write(cart, addr, data) ==
    [cart EXCEPT !.mapper = Mapper_cpu_write(@, addr, data)]

\* the byte read; an offset beyond the character array is an out-of-bounds
\* index, which panics
Cartridge_ppu_read(cart, addr) ==
    IF cart.chr_is_ram
    THEN [v |-> MemRead(cart.chr_rom, BitAnd(addr, 8191)), panic |-> FALSE]
    ELSE IF Mapper_ppu_read(cart.mapper, addr).kind = "Address"
         THEN IF Mapper_ppu_read(cart.mapper, addr).v < cart.chr_size
              THEN [v |-> MemRead(cart.chr_rom, Mapper_ppu_read(cart.mapper, addr).v),
                    panic |-> FALSE]
              ELSE [v |-> 0, panic |-> TRUE]
         ELSE [v |-> 0, panic |-> FALSE]

Cartridge_ppu_write(cart, addr, data) ==
    IF cart.chr_is_ram
    THEN [cart EXCEPT !.chr_rom = MemWrite(@, BitAnd(addr, 8191), data)]
    ELSE cart

Cartridge_interrupt_state(cart) == Mapper_interrupt_state(cart.mapper)
Cartridge_reset_interrupt(cart) == [cart EXCEPT !.mapper = Mapper_reset_interrupt(@)]
Cartridge_on_scanline(cart) == [cart EXCEPT !.mapper = Mapper_on_scanline(@)]
Cartridge_reset_mapper(cart) == [cart EXCEPT !.mapper = Mapper_reset(@)]

\* ------------------------------------------------------------------------
\* device/vram.rs and the PPU bus of system.rs
\* ------------------------------------------------------------------------

TABLE_P2_SIZE == 10

Vram_new == [tables |-> <<Ram_new(TABLE_P2_SIZE), Ram_new(TABLE_P2_SIZE)>>]

table_index_mutant(mirror, addr) ==
    CASE mirror = "Horizontal" -> BitAnd(Shr(addr, 10), 1)
      [] mirror = "Vertical" -> BitAnd(Shr(addr, 10), 1)
      [] mirror = "OneScreenLow" -> 0
      [] mirror = "OneScreenHigh" -> 1

\* the index of the table an address falls into under a mirror mode
table_index(mirror, addr) ==
    CASE mirror = "Horizontal" -> BitAnd(Shr(addr, 11), 1)
      [] mirror = "Vertical" -> BitAnd(Shr(addr, 10), 1)
      [] mirror = "OneScreenLow" -> 0
      [] mirror = "OneScreenHigh" -> 1

Vram_read(vram, mirror, addr) ==
    Ram_read(vram.tables[table_index(mirror, addr) + 1], addr)

Vram_write(vram, mirror, addr, data) ==
    [vram EXCEPT !.tables[table_index(mirror, addr) + 1] = Ram_write(@, addr, data)]

\* A PPU bus b is the three borrows of PpuBus: cart, vram and palette.
\* PpuBus::read returns the byte read, and whether the read panicked.
PpuBus_read(b, addr) ==
    LET a == BitAnd(addr, 16383)
    IN IF a >= CHR_START /\ a <= CHR_END
       THEN Cartridge_ppu_read(b.cart, a - CHR_START)
       ELSE IF a >= VRAM_START /\ a <= VRAM_END
       THEN [v |-> Vram_read(b.vram, Cartridge_mirror(b.cart), a - VRAM_START),
             panic |-> FALSE]
       ELSE IF a >= PALETTE_START /\ a <= PALETTE_END
       THEN [v |-> Ram_read(b.palette, a - PALETTE_START), panic |-> FALSE]
       ELSE [v |-> 0, panic |-> FALSE]

PpuBus_write(b, addr, data) ==
    LET a == BitAnd(addr, 16383)
    IN IF a >= CHR_START /\ a <= CHR_END
       THEN [b EXCEPT !.cart = Cartridge_ppu_write(@, a - CHR_START, data)]
       ELSE IF a >= VRAM_START /\ a <= VRAM_END
       THEN [b EXCEPT !.vram = Vram_write(@, Cartridge_mirror(b.cart),
                                          a - VRAM_START, data)]
       ELSE IF a >= PALETTE_START /\ a <= PALETTE_END
       THEN [b EXCEPT !.palette = Ram_write(@, a - PALETTE_START, data)]
       ELSE b


\* ------------------------------------------------------------------------
\* device/ppu.rs is not among the sources.  The operations System and
\* CpuBus call on the PPU are modelled from the specification: OAM with
\* its address register, the vblank flag, NMI enable and the NMI signal.
\* ------------------------------------------------------------------------

Ppu_new ==
    [oam_addr |-> 0, oam |-> EmptyMem,
     vblank |-> FALSE, nmi_enable |-> FALSE, nmi |-> FALSE]

Ppu_reset(ppu) == [Ppu_new EXCEPT !.oam = ppu.oam]

\* registers are mirrored every 8 bytes; 2 = PPUSTATUS, 4 = OAMDATA
Ppu_cpu_read(ppu, addr) ==
    LET reg == addr % 8
    IN IF reg = 2
       THEN [ppu |-> [ppu EXCEPT !.vblank = FALSE],
             v |-> IF ppu.vblank THEN 128 ELSE 0]
       ELSE IF reg = 4
            THEN [ppu |-> ppu, v |-> MemRead(ppu.oam, ppu.oam_addr)]
            ELSE [ppu |-> ppu, v |-> 0]

\* 0 = PPUCTRL, 3 = OAMADDR, 4 = OAMDATA
Ppu_cpu_write(ppu, addr, data) ==
    LET reg == addr % 8
        enable == BitAnd(data, 128) # 0
    IN IF reg = 0
       THEN [ppu EXCEPT !.nmi_enable = enable,
                        !.nmi = IF enable /\ ~ppu.nmi_enable /\ ppu.vblank
                                THEN TRUE ELSE @]
       ELSE IF reg = 3
            THEN [ppu EXCEPT !.oam_addr = data]
            ELSE IF reg = 4
                 THEN [ppu EXCEPT !.oam = MemWrite(@, ppu.oam_addr, data),
                                  !.oam_addr = Wrap8(@ + 1)]
                 ELSE ppu

Ppu_dma_write(ppu, data) ==
    [ppu EXCEPT !.oam = MemWrite(@, ppu.oam_addr, data),
                !.oam_addr = Wrap8(@ + 1)]

\* one PPU dot; vbl says that this dot is dot 1 of scanline 241
Ppu_clock_dot(ppu, vbl) ==
    IF vbl
    THEN [ppu EXCEPT !.vblank = TRUE, !.nmi = IF ppu.nmi_enable THEN TRUE ELSE @]
    ELSE ppu

Ppu_check_nmi(ppu) == [ppu |-> [ppu EXCEPT !.nmi = FALSE], v |-> ppu.nmi]

\* ------------------------------------------------------------------------
\* device/apu.rs: the interrupt side of the APU (frame counter flags and
\* the DMC sample reader's end-of-stream handling).  The channels' sound
\* state is outside this part of the model.
\* ------------------------------------------------------------------------

SampleReader_new ==
    [irq_enabled |-> TRUE, irq |-> FALSE, loop_enabled |-> FALSE,
     length |-> 1, bytes_remaining |-> 0, has_ended |-> TRUE]

SampleReader_set_flags(r, value) ==
    LET en == BitAnd(value, 128) # 0
    IN [r EXCEPT !.irq_enabled = en,
                 !.loop_enabled = (BitAnd(value, 64) # 0),
                 !.irq = IF en THEN @ ELSE FALSE]

SampleReader_set_length(r, value) ==
    [r EXCEPT !.length = BitOr(value * 16, 1)]

SampleReader_restart(r) ==
    IF r.bytes_remaining = 0
    THEN [r EXCEPT !.bytes_remaining = r.length, !.has_ended = FALSE]
    ELSE r

SampleReader_halt(r) == [r EXCEPT !.bytes_remaining = 0, !.has_ended = TRUE]

\* SampleReader::clock at a byte boundary (bits_remaining = 0).  The
\* decrement of bytes_remaining is a plain u16 subtraction: at 0 it panics
\* in a build with overflow checks and wraps in a build without.
SampleReader_clock(r, checks) ==
    IF r.has_ended THEN [r |-> r, panic |-> FALSE]
    ELSE LET r1 == IF r.bytes_remaining = 0
                   THEN IF r.loop_enabled
                        THEN SampleReader_restart([r EXCEPT !.has_ended = TRUE])
                        ELSE [r EXCEPT !.has_ended = TRUE,
                                       !.irq = IF r.irq_enabled THEN TRUE ELSE @]
                   ELSE r
         IN [r |-> [r1 EXCEPT !.bytes_remaining = Wrap16(@ + 65535)],
             panic |-> checks /\ r1.bytes_remaining = 0]

Apu_new ==
    [counter_mode |-> FALSE, even_cycle |-> FALSE,
     inhibit_irq |-> TRUE, irq |-> FALSE, reader |-> SampleReader_new]

\* Apu::reset touches only channel enables and length counters
Apu_reset(apu) == apu

Apu_dmc_irq_requested(apu) == apu.reader.irq
Apu_irq_requested(apu) == apu.irq

\* The frame sequencer of Apu::clock, on an Apu with its cycle count: the
\* count after the call, the events of the call, and the quarter and half
\* flags the call hands to the pulse, triangle and noise channels (pulse
\* and noise are clocked on even calls only).
Apu_sequence_mutant(apu) ==
    LET even == ~apu.even_cycle
        cycles == apu.cycles + 1
        full == cycles = (IF apu.counter_mode THEN 18641 ELSE 14915)
        half == (cycles = 7457) \/ full
        quarter == (cycles = 3729) \/ (cycles = 11186) \/ half
    IN [cycles |-> IF full THEN 0 ELSE cycles,
        even |-> even, full |-> full, half |-> half, quarter |-> quarter,
        triangle |-> <<quarter /\ even, half /\ even>>,
        pulse_1 |-> <<even /\ quarter, even /\ half>>,
        pulse_2 |-> <<even /\ quarter, even /\ half>>,
        noise |-> <<even /\ quarter, even /\ half>>]

Apu_sequence(apu) ==
    LET even == ~apu.even_cycle
        cycles == IF even THEN apu.cycles + 1 ELSE apu.cycles
        full == cycles = (IF apu.counter_mode THEN 18641 ELSE 14915)
        half == (cycles = 7457) \/ full
        quarter == (cycles = 3729) \/ (cycles = 11186) \/ half
    IN [cycles |-> IF full THEN 0 ELSE cycles,
        even |-> even, full |-> full, half |-> half, quarter |-> quarter,
        triangle |-> <<quarter /\ even, half /\ even>>,
        pulse_1 |-> <<even /\ quarter, even /\ half>>,
        pulse_2 |-> <<even /\ quarter, even /\ half>>,
        noise |-> <<even /\ quarter, even /\ half>>]

Apu_clock_mutant(apu, frame, dmc, checks) ==
    LET even == ~apu.even_cycle
        full == even /\ frame
        a1 == [apu EXCEPT !.even_cycle = even,
                          !.irq = IF full /\ ~apu.counter_mode
                                  THEN TRUE ELSE @]
        r == SampleReader_clock(apu.reader, checks)
    IN IF even /\ dmc
       THEN [apu |-> [a1 EXCEPT !.reader = r.r], panic |-> r.panic]
       ELSE [apu |-> a1, panic |-> FALSE]

\* frame:  the frame counter reaches its period on this APU cycle;
\* dmc:    the DMC timer fires on this APU cycle and the reader is at a
\*         byte boundary;
\* checks: the build has overflow checks
Apu_clock(apu, frame, dmc, checks) ==
    LET even == ~apu.even_cycle
        full == even /\ frame
        a1 == [apu EXCEPT !.even_cycle = even,
                          !.irq = IF full /\ ~apu.inhibit_irq /\ ~apu.counter_mode
                                  THEN TRUE ELSE @]
        r == SampleReader_clock(apu.reader, checks)
    IN IF even /\ dmc
       THEN [apu |-> [a1 EXCEPT !.reader = r.r], panic |-> r.panic]
       ELSE [apu |-> a1, panic |-> FALSE]

\* Apu::write: channel 4 is the DMC
Apu_write(apu, address, data) ==
    IF address \div 4 = 4
    THEN IF address % 4 = 0
         THEN [apu EXCEPT !.reader = SampleReader_set_flags(@, data)]
         ELSE IF address % 4 = 3
              THEN [apu EXCEPT !.reader = SampleReader_set_length(@, data)]
              ELSE apu
    ELSE apu

\* bits 0..3 are the length counters, which stay 0 in this part of the model
Apu_read_status(apu) ==
    [apu |-> [apu EXCEPT !.irq = FALSE],
     v |-> (IF ~apu.reader.has_ended THEN 16 ELSE 0)
           + (IF apu.irq THEN 64 ELSE 0)
           + (IF apu.reader.irq THEN 128 ELSE 0)]

Apu_write_control(apu, data) ==
    LET r == [apu.reader EXCEPT !.irq = FALSE]
    IN [apu EXCEPT !.reader = IF BitAnd(data, 16) # 0
                              THEN SampleReader_restart(r)
                              ELSE SampleReader_halt(r)]

Apu_write_frame_counter(apu, data) ==
    [apu EXCEPT !.counter_mode = (BitAnd(data, 128) # 0),
                !.inhibit_irq = (BitAnd(data, 64) # 0)]

\* ------------------------------------------------------------------------
\* device/apu.rs: the DMC sample reader bit by bit, with its sample address,
\* its position and its bit counter.  The byte fetched and the output bit,
\* which none of the reader's other fields depends on, are left out; a
\* clock returns the address it fetched from, if any.
\* ------------------------------------------------------------------------

SampleReader_new_stream ==
    SampleReader_new
    @@ [address |-> DMC_BASE_ADDRESS, current_pos |-> DMC_BASE_ADDRESS,
        bits_remaining |-> 0]

SampleReader_set_address(r, value) ==
    [r EXCEPT !.address = BitOr(DMC_BASE_ADDRESS, value * 64)]

SampleReader_restart_stream(r) ==
    IF r.bytes_remaining = 0
    THEN [r EXCEPT !.current_pos = r.address,
                   !.bytes_remaining = r.length,
                   !.has_ended = FALSE]
    ELSE r

\* the end-of-stream arm of SampleReader::clock
SampleReader_complete(r) ==
    IF r.bytes_remaining # 0 THEN r
    ELSE IF r.loop_enabled
    THEN SampleReader_restart_stream([r EXCEPT !.has_ended = TRUE])
    ELSE [r EXCEPT !.has_ended = TRUE,
                   !.irq = IF r.irq_enabled THEN TRUE ELSE @]

\* the fetch of SampleReader::clock: the read at current_pos, the step of
\* the position and the decrement of bytes_remaining, a plain u16
\* subtraction: at 0 it panics in a build with overflow checks (the reader
\* stays as the panic found it) and wraps in a build without
SampleReader_fetch(r, checks) ==
    LET pos == Wrap16(r.current_pos + 1)
        under == r.bytes_remaining = 0
    IN IF checks /\ under
       THEN [r |-> [r EXCEPT !.current_pos = IF pos = 0 THEN DMC_WRAP_ADDRESS
                                             ELSE pos],
             fetch |-> <<r.current_pos>>, underflow |-> TRUE, panic |-> TRUE]
       ELSE [r |-> [r EXCEPT !.current_pos = IF pos = 0 THEN DMC_WRAP_ADDRESS
                                             ELSE pos,
                             !.bytes_remaining = Wrap16(@ + 65535),
                             !.bits_remaining = @ - 1],
             fetch |-> <<r.current_pos>>, underflow |-> under, panic |-> FALSE]

\* SampleReader::clock
SampleReader_clock_stream(r, checks) ==
    IF r.bits_remaining = 0
    THEN IF ~r.has_ended
         THEN SampleReader_fetch(
                  [SampleReader_complete(r) EXCEPT !.bits_remaining = 8], checks)
         ELSE [r |-> [r EXCEPT !.bits_remaining = 8 - 1],
               fetch |-> << >>, underflow |-> FALSE, panic |-> FALSE]
    ELSE [r |-> [r EXCEPT !.bits_remaining = @ - 1],
          fetch |-> << >>, underflow |-> FALSE, panic |-> FALSE]

Apu_new_stream == [Apu_new EXCEPT !.reader = SampleReader_new_stream]

\* Apu::write at 0x4010-0x4013: DmcChannel::write
Apu_write_stream(apu, address, data) ==
    IF address \div 4 # 4 THEN apu
    ELSE CASE address % 4 = 0 ->
                [apu EXCEPT !.reader = SampleReader_set_flags(@, data)]
           [] address % 4 = 2 ->
                [apu EXCEPT !.reader = SampleReader_set_address(@, data)]
           [] address % 4 = 3 ->
                [apu EXCEPT !.reader = SampleReader_set_length(@, data)]
           [] OTHER -> apu

\* Apu::write_control: the DMC part
Apu_write_control_stream(apu, data) ==
    LET r == [apu.reader EXCEPT !.irq = FALSE]
    IN [apu EXCEPT !.reader = IF BitAnd(data, 16) # 0
                              THEN SampleReader_restart_stream(r)
                              ELSE SampleReader_halt(r)]

\* ------------------------------------------------------------------------
\* device/apu.rs: the timer and the sweep unit of the pulse channels.  The
\* arithmetic is unsigned 16-bit (the divider 8-bit); a subtraction below 0
\* panics in a build with overflow checks (checks) and wraps in one without.
\* ------------------------------------------------------------------------

Sequencer_new == [period |-> 0, timer |-> 0]

Sequencer_is_pulse_enabled(q) == BitAnd(q.period, 2047) >= 8

Sequencer_set_lo(q, lo) ==
    [q EXCEPT !.period = BitOr(BitAnd(q.period, 65280), lo)]

Sequencer_set_hi(q, hi) ==
    LET period == BitOr(BitAnd(hi, 7) * 256, BitAnd(q.period, 63743))
    IN [q EXCEPT !.period = period, !.timer = BitAnd(period, 2047)]

\* returns the sequencer after the clock and whether the timer expired
Sequencer_clock(q) ==
    LET timer == Wrap16(q.timer + 65535)
    IN IF timer = 65535
       THEN [q |-> [q EXCEPT !.timer = BitAnd(q.period, 2047)], v |-> TRUE]
       ELSE [q |-> [q EXCEPT !.timer = timer], v |-> FALSE]

Sweep_new(is_channel_1) ==
    [sequencer |-> Sequencer_new, is_channel_1 |-> is_channel_1,
     enabled |-> FALSE, period |-> 0, negate |-> FALSE, shift |-> 0,
     reload |-> FALSE, divider |-> 0, target_period |-> 0]

\* returns the sweep unit, whether a subtraction went below 0, and whether
\* that panicked
Sweep_update_target_period(s, checks) ==
    LET shift_result == Shr(s.sequencer.period, s.shift)
        difference == s.sequencer.period - shift_result
        target == IF s.negate
                  THEN IF s.is_channel_1
                       THEN difference - 1
                       ELSE difference
                  ELSE s.sequencer.period + shift_result
        underflow == s.negate /\ (difference < 0 \/ target < 0)
    IN [s |-> IF underflow /\ checks THEN s
              ELSE [s EXCEPT !.target_period = Wrap16(target + 65536)],
        underflow |-> underflow,
        panic |-> underflow /\ checks]

Sweep_set(s, value) ==
    [s EXCEPT !.enabled = (BitAnd(value, 128) # 0),
              !.period = Shr(BitAnd(value, 112), 4),
              !.negate = (BitAnd(value, 8) # 0),
              !.shift = BitAnd(value, 7),
              !.reload = TRUE]

\* the half-frame part of Sweep::clock
Sweep_half(s) ==
    LET divider == Wrap8(s.divider + 255)
        swept == IF divider = 0
                 THEN [s EXCEPT
                         !.sequencer.period =
                             IF s.shift > 0 /\ s.enabled
                                /\ Sequencer_is_pulse_enabled(s.sequencer)
                                /\ s.target_period <= 2047
                             THEN s.target_period ELSE @,
                         !.divider = s.period]
                 ELSE [s EXCEPT !.divider = divider]
    IN IF swept.reload
       THEN [swept EXCEPT !.divider = swept.period, !.reload = FALSE]
       ELSE swept

\* Sweep::clock
Sweep_clock(s, half, checks) ==
    LET u == Sweep_update_target_period(s, checks)
        h == IF half THEN Sweep_half(u.s) ELSE u.s
    IN IF u.panic THEN u
       ELSE [s |-> [h EXCEPT !.sequencer = Sequencer_clock(h.sequencer).q],
             underflow |-> u.underflow, panic |-> FALSE]

\* PulseChannel::write, the registers of the sweep unit and the timer
Sweep_write(s, address, data) ==
    CASE address = 1 -> Sweep_set(s, data)
      [] address = 2 -> [s EXCEPT !.sequencer = Sequencer_set_lo(@, data)]
      [] address = 3 -> [s EXCEPT !.sequencer = Sequencer_set_hi(@, data)]
      [] OTHER -> s

\* Apu::new, the sweep units of the two pulse channels
Apu_new_sweeps == <<Sweep_new(TRUE), Sweep_new(FALSE)>>

\* ------------------------------------------------------------------------
\* device/apu.rs: the length counters and enable flags of the channels.
\* A channel is its enable flag and its length counter; the envelope, sweep
\* and timer state, which no length counter depends on, is left out.  The
\* operations below are those of the Apu on an Apu value that carries the
\* channels.
\* ------------------------------------------------------------------------

LOAD_TABLE ==
    <<10, 254, 20, 2, 40, 4, 80, 6, 160, 8, 60, 10, 14, 12, 26, 14,
      12, 16, 24, 18, 48, 20, 96, 22, 192, 24, 72, 26, 16, 28, 32, 30>>

LengthCounter_new == [halt |-> FALSE, counter |-> 0]

LengthCounter_load(lc, value) ==
    [lc EXCEPT !.counter = LOAD_TABLE[Shr(BitAnd(value, 248), 3) + 1]]

\* LengthCounter::clock without the halt flag
LengthCounter_clock_mutant(lc) ==
    IF lc.counter > 0
    THEN [lc EXCEPT !.counter = @ - 1]
    ELSE lc

LengthCounter_clock(lc) ==
    IF lc.counter > 0 /\ ~lc.halt
    THEN [lc EXCEPT !.counter = @ - 1]
    ELSE lc

PulseChannel_new == [enabled |-> TRUE, length_counter |-> LengthCounter_new]

PulseChannel_write(ch, address, data) ==
    IF address = 0
    THEN [ch EXCEPT !.length_counter.halt = (BitAnd(data, 32) # 0)]
    ELSE IF address = 3
         THEN [ch EXCEPT !.length_counter = LengthCounter_load(@, data)]
         ELSE ch

PulseChannel_clock(ch, quarter, half) ==
    IF half
    THEN [ch EXCEPT !.length_counter = LengthCounter_clock(@)]
    ELSE ch

TriangleChannel_new == [enabled |-> TRUE, length_counter |-> LengthCounter_new]

TriangleChannel_write(ch, address, data) ==
    IF address = 0
    THEN [ch EXCEPT !.length_counter.halt = (BitAnd(data, 128) # 0)]
    ELSE IF address = 3
         THEN [ch EXCEPT !.length_counter = LengthCounter_load(@, data)]
         ELSE ch

TriangleChannel_clock(ch, quarter, half) ==
    IF half
    THEN [ch EXCEPT !.length_counter = LengthCounter_clock(@)]
    ELSE ch

NoiseChannel_new == [enabled |-> TRUE, length_counter |-> LengthCounter_new]

NoiseChannel_write(ch, address, data) ==
    IF address = 0
    THEN [ch EXCEPT !.length_counter.halt = (BitAnd(data, 32) # 0)]
    ELSE IF address = 3
         THEN [ch EXCEPT !.length_counter = LengthCounter_load(@, data)]
         ELSE ch

NoiseChannel_clock(ch, quarter, half) ==
    IF half
    THEN [ch EXCEPT !.length_counter = LengthCounter_clock(@)]
    ELSE ch

\* Apu::new, with the channels
Apu_new_channels ==
    Apu_new @@ [pulse_channel_1 |-> PulseChannel_new,
                pulse_channel_2 |-> PulseChannel_new,
                triangle_channel |-> TriangleChannel_new,
                noise_channel |-> NoiseChannel_new,
                dmc_enabled |-> TRUE]

\* Apu::clock, with the channels.  quarter, half and full are the flags the
\* frame sequencer computes in this call; the triangle channel is clocked in
\* every call with the flags masked by even_cycle, the pulse and noise
\* channels in even calls only.
Apu_clock_channels(apu, quarter, half, full, dmc, checks) ==
    LET even == ~apu.even_cycle
    IN [apu |-> [Apu_clock(apu, full, dmc, checks).apu EXCEPT
                   !.triangle_channel =
                       TriangleChannel_clock(@, quarter /\ even, half /\ even),
                   !.pulse_channel_1 =
                       IF even THEN PulseChannel_clock(@, quarter, half) ELSE @,
                   !.pulse_channel_2 =
                       IF even THEN PulseChannel_clock(@, quarter, half) ELSE @,
                   !.noise_channel =
                       IF even THEN NoiseChannel_clock(@, quarter, half) ELSE @],
        panic |-> Apu_clock(apu, full, dmc, checks).panic]

\* Apu::write, with the channels
Apu_write_channels(apu, address, data) ==
    LET a == Apu_write(apu, address, data)
        channel_index == address \div 4
        channel_address == address % 4
    IN IF channel_index = 0
       THEN [a EXCEPT !.pulse_channel_1 =
                          PulseChannel_write(@, channel_address, data)]
       ELSE IF channel_index = 1
       THEN [a EXCEPT !.pulse_channel_2 =
                          PulseChannel_write(@, channel_address, data)]
       ELSE IF channel_index = 2
       THEN [a EXCEPT !.triangle_channel =
                          TriangleChannel_write(@, channel_address, data)]
       ELSE IF channel_index = 3
       THEN [a EXCEPT !.noise_channel =
                          NoiseChannel_write(@, channel_address, data)]
       ELSE a

\* Apu::read_status that clears the DMC interrupt flag as well
Apu_read_status_channels_mutant(apu) ==
    [apu |-> [Apu_read_status(apu).apu EXCEPT !.reader.irq = FALSE],
     v |-> Apu_read_status(apu).v
           + (IF apu.pulse_channel_1.length_counter.counter > 0 THEN 1 ELSE 0)
           + (IF apu.pulse_channel_2.length_counter.counter > 0 THEN 2 ELSE 0)
           + (IF apu.triangle_channel.length_counter.counter > 0 THEN 4 ELSE 0)
           + (IF apu.noise_channel.length_counter.counter > 0 THEN 8 ELSE 0)]

\* Apu::read_status, with the channels
Apu_read_status_channels(apu) ==
    [apu |-> Apu_read_status(apu).apu,
     v |-> Apu_read_status(apu).v
           + (IF apu.pulse_channel_1.length_counter.counter > 0 THEN 1 ELSE 0)
           + (IF apu.pulse_channel_2.length_counter.counter > 0 THEN 2 ELSE 0)
           + (IF apu.triangle_channel.length_counter.counter > 0 THEN 4 ELSE 0)
           + (IF apu.noise_channel.length_counter.counter > 0 THEN 8 ELSE 0)]

\* Apu::write_control that leaves the length counter of a disabled channel
Apu_write_control_channels_mutant(apu, data) ==
    [Apu_write_control(apu, data) EXCEPT
       !.pulse_channel_1.enabled = (BitAnd(data, 1) # 0),
       !.pulse_channel_2.enabled = (BitAnd(data, 2) # 0),
       !.triangle_channel.enabled = (BitAnd(data, 4) # 0),
       !.noise_channel.enabled = (BitAnd(data, 8) # 0),
       !.dmc_enabled = (BitAnd(data, 16) # 0)]

\* Apu::write_control, with the channels
Apu_write_control_channels(apu, data) ==
    [Apu_write_control(apu, data) EXCEPT
       !.pulse_channel_1.enabled = (BitAnd(data, 1) # 0),
       !.pulse_channel_1.length_counter.counter =
           IF BitAnd(data, 1) # 0 THEN @ ELSE 0,
       !.pulse_channel_2.enabled = (BitAnd(data, 2) # 0),
       !.pulse_channel_2.length_counter.counter =
           IF BitAnd(data, 2) # 0 THEN @ ELSE 0,
       !.triangle_channel.enabled = (BitAnd(data, 4) # 0),
       !.triangle_channel.length_counter.counter =
           IF BitAnd(data, 4) # 0 THEN @ ELSE 0,
       !.noise_channel.enabled = (BitAnd(data, 8) # 0),
       !.noise_channel.length_counter.counter =
           IF BitAnd(data, 8) # 0 THEN @ ELSE 0,
       !.dmc_enabled = (BitAnd(data, 16) # 0)]

\* ------------------------------------------------------------------------
\* device/apu.rs and main.rs: sample output.  Time is counted in units of
\* 1 / (CPU_CLOCK_SPEED * SAMPLE_RATE) seconds, in which the period of the
\* APU clock and of the output samples are whole numbers; the f64 field t
\* is modelled by the exact value.  The sample buffer is the producer half
\* of a ring buffer of a fixed capacity: its push fails when the buffer is
\* full, and Apu::clock unwraps the result.
\* ------------------------------------------------------------------------

SECONDS_PER_APU_CLOCK == 2 * SAMPLE_RATE

SECONDS_PER_SAMPLE == CPU_CLOCK_SPEED

\* ringbuf::HeapRb::new(capacity), split
SampleBuffer_new(capacity) == [len |-> 0, capacity |-> capacity]

\* SampleBuffer::push: the buffer, and whether the push failed
SampleBuffer_push(b) ==
    IF b.len = b.capacity
    THEN [buf |-> b, err |-> TRUE]
    ELSE [buf |-> [b EXCEPT !.len = @ + 1], err |-> FALSE]

\* SampleBufferSource::next: try_pop, with 0.0 for an empty buffer
SampleBufferSource_next(b) ==
    IF b.len = 0 THEN b ELSE [b EXCEPT !.len = @ - 1]

RECURSIVE Apu_push_samples(_, _)

\* the loop of Apu::clock that pushes samples while t >= 0.0; the unwrap of
\* a failed push panics
Apu_push_samples(t, b) ==
    IF t >= 0
    THEN IF SampleBuffer_push(b).err
         THEN [t |-> t - SECONDS_PER_SAMPLE, buf |-> b, panic |-> TRUE]
         ELSE Apu_push_samples(t - SECONDS_PER_SAMPLE, SampleBuffer_push(b).buf)
    ELSE [t |-> t, buf |-> b, panic |-> FALSE]

\* Apu::new, with the channels and the sample clock
Apu_new_samples == Apu_new_channels @@ [t |-> 0]

\* Apu::clock, with the channels and the sample output of an even call
Apu_clock_samples(apu, b, quarter, half, full, dmc, checks) ==
    LET c == Apu_clock_channels(apu, quarter, half, full, dmc, checks)
        p == Apu_push_samples(apu.t + SECONDS_PER_APU_CLOCK, b)
    IN IF c.panic \/ apu.even_cycle
       THEN [apu |-> c.apu, buf |-> b, panic |-> c.panic]
       ELSE [apu |-> [c.apu EXCEPT !.t = p.t], buf |-> p.buf, panic |-> p.panic]

\* ------------------------------------------------------------------------
\* main.rs: the front-end (the event loop with the handlers of App), the
\* emulation thread (run_emu) and the audio thread, around the System mutex,
\* the running flag and the sample buffer.  What System::clock does to the
\* System is the subject of the specifications above; here a call of
\* System::clock(1000) is the samples it pushes.  The audio thread takes
\* fewer samples during a call than the call produces: the emulation runs
\* faster than the sound plays.
\* ------------------------------------------------------------------------

\* App::new
App_new ==
    [running |-> FALSE, handle |-> FALSE, thread |-> "none", lock |-> "free",
     front |-> "idle", window |-> FALSE, audio |-> FALSE, gpu |-> FALSE,
     sample_buffer |-> SampleBuffer_new(0), popped |-> 0]

\* App::resumed: the resources, the flag, the thread
App_resumed(h) ==
    [h EXCEPT !.window = TRUE, !.audio = TRUE, !.gpu = TRUE,
              !.sample_buffer = SampleBuffer_new(HostCapacity),
              !.running = TRUE, !.handle = TRUE, !.thread = "check"]

\* App::suspended up to the join
App_suspended(h) ==
    [h EXCEPT !.running = FALSE, !.handle = FALSE, !.front = "suspend_join"]

\* App::suspended that releases the resources without the join
App_suspended_join_mutant(h) ==
    [h EXCEPT !.front = "suspend_release"]

\* the join of App::suspended returns
App_suspended_join(h) ==
    [h EXCEPT !.thread = "none", !.front = "suspend_release"]

\* App::suspended after the join
App_suspended_release(h) ==
    [h EXCEPT !.audio = FALSE, !.gpu = FALSE, !.front = "idle"]

\* WindowEvent::CloseRequested up to the join
App_close(h) ==
    IF h.handle
    THEN [h EXCEPT !.running = FALSE, !.handle = FALSE, !.front = "close_join"]
    ELSE [h EXCEPT !.front = "exited"]

\* the join of CloseRequested returns, and the event loop exits
App_close_join(h) == [h EXCEPT !.thread = "none", !.front = "exited"]

\* main returns and drops the App
App_drop(h) ==
    [h EXCEPT !.window = FALSE, !.audio = FALSE, !.gpu = FALSE,
              !.front = "dropped"]

\* self.system.lock() of the handler at, once the mutex is free
App_lock(h, at) == [h EXCEPT !.lock = "front", !.front = at]

\* the guard of the handler is dropped
App_unlock(h) == [h EXCEPT !.lock = "free", !.front = "idle"]

\* run_emu: the condition of the outer loop
run_emu_check(h) ==
    [h EXCEPT !.thread = IF h.running THEN "lock" ELSE "done"]

\* run_emu: system.lock(), once the mutex is free
run_emu_lock(h) == [h EXCEPT !.lock = "emu", !.thread = "batch", !.popped = 0]

\* n pushes of a sample
RECURSIVE Push(_, _)
Push(b, n) == IF n = 0 THEN b ELSE Push(SampleBuffer_push(b).buf, n - 1)

\* run_emu: system.clock(1000, &mut sample_buffer) in the inner loop
run_emu_clock(h) ==
    [h EXCEPT !.sample_buffer = Push(@, HostSamplesPerCall), !.popped = 0]

\* run_emu that sleeps inside the block that holds the guard
run_emu_unlock_mutant(h) == [h EXCEPT !.thread = "sleep"]

\* run_emu: the end of the block that holds the guard
run_emu_unlock(h) == [h EXCEPT !.lock = "free", !.thread = "sleep"]

\* run_emu: spin_sleep::sleep returns
run_emu_sleep(h) == [h EXCEPT !.thread = "check"]

\* the audio thread: SampleBufferSource::next
Audio_next(h) ==
    [h EXCEPT !.sample_buffer = SampleBufferSource_next(@),
              !.popped = IF h.thread = "batch" THEN @ + 1 ELSE @]

\* ------------------------------------------------------------------------
\* system.rs: Dma and CpuBus.  A machine m is the System value: its fields
\* are the System's fields, plus the bus accesses and clock steps of the
\* operation in progress and the panic flag.  An operation that changes the
\* machine and returns a value returns the machine with the value in its
\* field ret.
\* ------------------------------------------------------------------------

Dma_new == [page |-> 0, addr |-> 0, active |-> FALSE]

Dma_write(dma, data) == [page |-> data, addr |-> 0, active |-> TRUE]

Logged(m, kind, addr, value) ==
    [m EXCEPT !.bus = Append(@, <<kind, addr, value>>)]

\* the end of CpuBus::read: the byte read goes to the latch and is returned
Latched(m, addr, value) ==
    Logged([m EXCEPT !.last_bus_value = value, !.ret = value], "r", addr, value)

CpuBus_read(m, addr) ==
    IF addr <= RAM_END
    THEN Latched(m, addr, Ram_read(m.ram, addr - RAM_START))
    ELSE IF addr <= PPU_END
    THEN Latched([m EXCEPT !.ppu = Ppu_cpu_read(@, addr - PPU_START).ppu],
                 addr, Ppu_cpu_read(m.ppu, addr - PPU_START).v)
    ELSE IF addr = APU_STATUS_CONTROL
    THEN Latched([m EXCEPT !.apu = Apu_read_status(@).apu], addr,
                 BitOr(BitAnd(Apu_read_status(m.apu).v, 223),
                       BitAnd(m.last_bus_value, 32)))
    ELSE IF addr = CONTROLLER_A
    THEN Latched([m EXCEPT !.controller = Controller_read(@, PortA).c], addr,
                 BitOr(BitAnd(Controller_read(m.controller, PortA).v, 31),
                       BitAnd(m.last_bus_value, 224)))
    ELSE IF addr = CONTROLLER_B
    THEN Latched([m EXCEPT !.controller = Controller_read(@, PortB).c], addr,
                 BitOr(BitAnd(Controller_read(m.controller, PortB).v, 31),
                       BitAnd(m.last_bus_value, 224)))
    ELSE IF addr >= PRG_START
    THEN Latched([m EXCEPT !.panicked = @ \/ Cartridge_cpu_read(m.cart, addr).panic],
                 addr,
                 IF Cartridge_cpu_read(m.cart, addr).some
                 THEN Cartridge_cpu_read(m.cart, addr).v
                 ELSE m.last_bus_value)
    ELSE Latched(m, addr, m.last_bus_value)

\* CpuBus_write with the latch left alone
CpuBus_write_mutant(m, addr, data) ==
    LET m0 == Logged(m, "w", addr, data)
    IN IF addr <= RAM_END
       THEN [m0 EXCEPT !.ram = Ram_write(@, addr - RAM_START, data)]
       ELSE IF addr <= PPU_END
       THEN [m0 EXCEPT !.ppu = Ppu_cpu_write(@, addr - PPU_START, data)]
       ELSE IF addr <= APU_END
       THEN [m0 EXCEPT !.apu = Apu_write(@, addr - APU_START, data)]
       ELSE IF addr = DMA
       THEN [m0 EXCEPT !.dma = Dma_write(@, data)]
       ELSE IF addr = APU_STATUS_CONTROL
       THEN [m0 EXCEPT !.apu = Apu_write_control(@, data)]
       ELSE IF addr = CONTROLLER_A
       THEN [m0 EXCEPT !.controller = Controller_write(@, data)]
       ELSE IF addr = APU_FRAME_COUNTER
       THEN [m0 EXCEPT !.apu = Apu_write_frame_counter(@, data)]
       ELSE IF addr >= PRG_START
       THEN [m0 EXCEPT !.cart = Cartridge_cpu_write(@, addr, data)]
       ELSE m0

CpuBus_write(m, addr, data) ==
    LET m0 == Logged([m EXCEPT !.last_bus_value = data], "w", addr, data)
    IN IF addr <= RAM_END
       THEN [m0 EXCEPT !.ram = Ram_write(@, addr - RAM_START, data)]
       ELSE IF addr <= PPU_END
       THEN [m0 EXCEPT !.ppu = Ppu_cpu_write(@, addr - PPU_START, data)]
       ELSE IF addr <= APU_END
       THEN [m0 EXCEPT !.apu = Apu_write(@, addr - APU_START, data)]
       ELSE IF addr = DMA
       THEN [m0 EXCEPT !.dma = Dma_write(@, data)]
       ELSE IF addr = APU_STATUS_CONTROL
       THEN [m0 EXCEPT !.apu = Apu_write_control(@, data)]
       ELSE IF addr = CONTROLLER_A
       THEN [m0 EXCEPT !.controller = Controller_write(@, data)]
       ELSE IF addr = APU_FRAME_COUNTER
       THEN [m0 EXCEPT !.apu = Apu_write_frame_counter(@, data)]
       ELSE IF addr >= PRG_START
       THEN [m0 EXCEPT !.cart = Cartridge_cpu_write(@, addr, data)]
       ELSE m0

\* u16::from_le_bytes of the bytes two reads returned, low first
le_word(low, high) == [high EXCEPT !.ret = from_le_bytes(low.ret, high.ret)]

\* the read of a high byte at addr, after the read of its low byte
read_high(low, addr) == le_word(low, CpuBus_read(low, addr))

CpuBus_read_16(m, addr) == read_high(CpuBus_read(m, addr), Wrap16(addr + 1))


\* ------------------------------------------------------------------------
\* cpu.rs: status flags, stack
\* ------------------------------------------------------------------------

\* StatusFlags::all().bits(): C | Z | I | D | V | N
FLAGS_ALL == FLAG_C + FLAG_Z + FLAG_I + FLAG_D + FLAG_V + FLAG_N

contains(p, flag) == BitAnd(p, flag) # 0
insert(p, flag) == BitOr(p, flag)
remove(p, flag) == BitAnd(p, 255 - flag)
set(p, flag, value) == IF value THEN insert(p, flag) ELSE remove(p, flag)
from_bits_truncate(bits) == BitAnd(bits, FLAGS_ALL)

\* the Z and N updates that follow most results
set_zn(p, result) ==
    set(set(p, FLAG_Z, result = 0), FLAG_N, BitAnd(result, 128) # 0)

\* push writing below the byte S points at: S goes down before the write
push_mutant(m, data) ==
    [CpuBus_write(m, from_le_bytes(Wrap8(m.cpu.s + 255), STACK_HIGH_BYTE), data)
        EXCEPT !.cpu.s = Wrap8(@ + 255)]

push(m, data) ==
    [CpuBus_write(m, from_le_bytes(m.cpu.s, STACK_HIGH_BYTE), data)
        EXCEPT !.cpu.s = Wrap8(@ + 255)]

push_16(m, data) == push(push(m, HighByte(data)), LowByte(data))

pop(m) ==
    CpuBus_read([m EXCEPT !.cpu.s = Wrap8(@ + 1)],
                from_le_bytes(Wrap8(m.cpu.s + 1), STACK_HIGH_BYTE))

\* the pop of a high byte, after the pop of its low byte
pop_16(m) ==
    LET High(low) == le_word(low, pop(low))
    IN High(pop(m))

\* ------------------------------------------------------------------------
\* cpu/addressing_mode.rs
\* ------------------------------------------------------------------------

increment_no_carry(addr) == from_le_bytes(Wrap8(LowByte(addr) + 1), HighByte(addr))

PageOf(addr) == Shr(addr, 8)

\* the address of the dummy read of the indexed modes:
\* (base_addr & 0xFF00) | (abs_addr & 0x00FF)
DummyAddr(mode) == BitOr(BitAnd(mode.base_addr, 65280), BitAnd(mode.abs_addr, 255))

\* what decode returns: the machine with the decoded mode in its field mode
\* and the page-crossed flag in its field page_crossed
Decoded(m, mode, crossed) == [m EXCEPT !.mode = mode, !.page_crossed = crossed]

\* AddressingMode::decode, from the machine after the opcode fetch
Decode_Implicit(m) ==
    Decoded(CpuBus_read(m, m.cpu.pc), [kind |-> "Implicit"], FALSE)

Decode_Accumulator(m) ==
    Decoded(CpuBus_read(m, m.cpu.pc), [kind |-> "Accumulator"], FALSE)

Decode_Immediate(m) ==
    LET Operand(r) ==
            Decoded([r EXCEPT !.cpu.pc = Wrap16(@ + 1)],
                    [kind |-> "Immediate", value |-> r.ret], FALSE)
    IN Operand(CpuBus_read(m, m.cpu.pc))

Decode_ZeroPage(m) ==
    LET Operand(r) ==
            Decoded([r EXCEPT !.cpu.pc = Wrap16(@ + 1)],
                    [kind |-> "ZeroPage", zp_addr |-> r.ret], FALSE)
    IN Operand(CpuBus_read(m, m.cpu.pc))

Decode_ZeroPageOffset(m, kind, index) ==
    LET Operand(r) ==
            Decoded([r EXCEPT !.cpu.pc = Wrap16(@ + 1)],
                    [kind |-> kind, base_addr |-> r.ret,
                     zp_addr |-> Wrap8(r.ret + index)], FALSE)
    IN Operand(CpuBus_read(m, m.cpu.pc))

\* r: after the read of the offset; d: after the dummy read at the new PC
Decode_Relative(m) ==
    LET Operand(r) ==
            LET Target(d) ==
                    Decoded(d,
                            [kind |-> "Relative", offset |-> r.ret,
                             abs_addr |-> wrapping_add_signed(d.cpu.pc, r.ret)],
                            PageOf(wrapping_add_signed(d.cpu.pc, r.ret))
                                # PageOf(d.cpu.pc))
            IN Target(CpuBus_read([r EXCEPT !.cpu.pc = Wrap16(@ + 1)],
                                  Wrap16(r.cpu.pc + 1)))
    IN Operand(CpuBus_read(m, m.cpu.pc))

Decode_Absolute(m) ==
    LET Operand(r) ==
            Decoded([r EXCEPT !.cpu.pc = Wrap16(@ + 2)],
                    [kind |-> "Absolute", abs_addr |-> r.ret], FALSE)
    IN Operand(CpuBus_read_16(m, m.cpu.pc))

Decode_AbsoluteOffset(m, kind, index) ==
    LET Operand(r) ==
            Decoded([r EXCEPT !.cpu.pc = Wrap16(@ + 2)],
                    [kind |-> kind, base_addr |-> r.ret,
                     abs_addr |-> Wrap16(r.ret + index),
                     page_crossed |-> PageOf(Wrap16(r.ret + index)) # PageOf(r.ret)],
                    PageOf(Wrap16(r.ret + index)) # PageOf(r.ret))
    IN Operand(CpuBus_read_16(m, m.cpu.pc))

\* r: after the read of the pointer; t: after the reads of the target
Decode_Indirect(m) ==
    LET Pointer(r) ==
            LET Target(t) ==
                    Decoded(t,
                            [kind |-> "Indirect", ind_addr |-> r.ret,
                             addr |-> t.ret], FALSE)
            IN Target(read_high(CpuBus_read([r EXCEPT !.cpu.pc = Wrap16(@ + 2)],
                                            r.ret),
                                increment_no_carry(r.ret)))
    IN Pointer(CpuBus_read_16(m, m.cpu.pc))

\* r: after the read of the operand; t: after the dummy read of the operand
\* address and the reads of the target
Decode_OffsetXIndirect(m) ==
    LET Operand(r) ==
            LET Target(t) ==
                    Decoded(t,
                            [kind |-> "OffsetXIndirect", zp_base_addr |-> r.ret,
                             abs_addr |-> t.ret], FALSE)
            IN Target(read_high(
                         CpuBus_read(
                            CpuBus_read([r EXCEPT !.cpu.pc = Wrap16(@ + 1)], r.ret),
                            Wrap8(r.ret + m.cpu.x)),
                         Wrap8(Wrap8(r.ret + m.cpu.x) + 1)))
    IN Operand(CpuBus_read(m, m.cpu.pc))

\* r: after the read of the operand; t: after the reads of the base address
Decode_IndirectOffsetY(m, kind) ==
    LET Operand(r) ==
            LET Base(t) ==
                    Decoded(t,
                            [kind |-> kind, zp_base_addr |-> r.ret,
                             base_addr |-> t.ret,
                             abs_addr |-> Wrap16(t.ret + m.cpu.y),
                             magic_value |-> Wrap8(HighByte(t.ret) + 1),
                             page_crossed |-> PageOf(Wrap16(t.ret + m.cpu.y))
                                                # PageOf(t.ret)],
                            PageOf(Wrap16(t.ret + m.cpu.y)) # PageOf(t.ret))
            IN Base(read_high(CpuBus_read([r EXCEPT !.cpu.pc = Wrap16(@ + 1)],
                                          r.ret),
                              Wrap8(r.ret + 1)))
    IN Operand(CpuBus_read(m, m.cpu.pc))

decode(kind, m) ==
    CASE kind = "Implicit" -> Decode_Implicit(m)
      [] kind = "Accumulator" -> Decode_Accumulator(m)
      [] kind = "Immediate" -> Decode_Immediate(m)
      [] kind = "ZeroPage" -> Decode_ZeroPage(m)
      [] kind \in {"ZeroPageOffsetX", "ZeroPageOffsetY"} ->
            Decode_ZeroPageOffset(m, kind,
                                  IF kind = "ZeroPageOffsetX"
                                  THEN m.cpu.x ELSE m.cpu.y)
      [] kind = "Relative" -> Decode_Relative(m)
      [] kind = "Absolute" -> Decode_Absolute(m)
      [] kind \in {"AbsoluteOffsetX", "AbsoluteOffsetY",
                   "AbsoluteOffsetXUnstable", "AbsoluteOffsetYUnstable"} ->
            Decode_AbsoluteOffset(m, kind,
                                  IF kind \in {"AbsoluteOffsetX",
                                               "AbsoluteOffsetXUnstable"}
                                  THEN m.cpu.x ELSE m.cpu.y)
      [] kind = "Indirect" -> Decode_Indirect(m)
      [] kind = "OffsetXIndirect" -> Decode_OffsetXIndirect(m)
      [] kind \in {"IndirectOffsetY", "IndirectOffsetYUnstable"} ->
            Decode_IndirectOffsetY(m, kind)

ZeroPageModes == {"ZeroPageOffsetX", "ZeroPageOffsetY"}
IndexedModes == {"AbsoluteOffsetX", "AbsoluteOffsetY", "IndirectOffsetY"}
DirectModes == {"Absolute", "OffsetXIndirect"}

\* ProducesData::produce_data: the machine after the reads, the operand in ret
produce_data(m, mode) ==
    CASE mode.kind = "Accumulator" -> [m EXCEPT !.ret = m.cpu.a]
      [] mode.kind = "Immediate" -> [m EXCEPT !.ret = mode.value]
      [] mode.kind = "ZeroPage" -> CpuBus_read(m, mode.zp_addr)
      [] mode.kind \in ZeroPageModes ->
            CpuBus_read(CpuBus_read(m, mode.base_addr), mode.zp_addr)
      [] mode.kind \in DirectModes -> CpuBus_read(m, mode.abs_addr)
      [] mode.kind \in IndexedModes ->
            IF mode.page_crossed
            THEN CpuBus_read(CpuBus_read(m, DummyAddr(mode)), mode.abs_addr)
            ELSE CpuBus_read(m, mode.abs_addr)

\* ConsumesData::consume_data
consume_data(m, mode, data) ==
    CASE mode.kind = "Accumulator" -> [m EXCEPT !.cpu.a = data]
      [] mode.kind = "ZeroPage" -> CpuBus_write(m, mode.zp_addr, data)
      [] mode.kind \in ZeroPageModes ->
            CpuBus_write(CpuBus_read(m, mode.base_addr), mode.zp_addr, data)
      [] mode.kind \in DirectModes -> CpuBus_write(m, mode.abs_addr, data)
      [] mode.kind \in IndexedModes ->
            CpuBus_write(CpuBus_read(m, DummyAddr(mode)), mode.abs_addr, data)

\* ProducesAddress::produce_address
produce_address(mode) ==
    IF mode.kind = "Indirect" THEN mode.addr ELSE mode.abs_addr

\* ConsumesDataUnstable::consume_data_unstable
consume_data_unstable(m, mode, data) ==
    LET magic == IF mode.kind = "IndirectOffsetYUnstable"
                 THEN mode.magic_value
                 ELSE Wrap8(Shr(mode.base_addr, 8) + 1)
        actual_data == BitAnd(data, magic)
        addr == IF mode.page_crossed
                THEN BitAnd(mode.abs_addr, BitOr(actual_data * 256, 255))
                ELSE mode.abs_addr
    IN CpuBus_write(m, addr, actual_data)


\* ------------------------------------------------------------------------
\* cpu/instruction.rs
\* ------------------------------------------------------------------------

\* (result, carry out) of lhs + rhs + c_in on u8
carry_add(lhs, rhs, c_in) ==
    LET sum == lhs + rhs + BoolToInt(c_in)
    IN [result |-> sum % 256, c_out |-> sum > 255]

execute_add(cpu, rhs) ==
    LET lhs == cpu.a
        r == carry_add(lhs, rhs, contains(cpu.p, FLAG_C))
        lhs_sign == BitAnd(lhs, 128)
        rhs_sign == BitAnd(rhs, 128)
        result_sign == BitAnd(r.result, 128)
        p1 == set(cpu.p, FLAG_C, r.c_out)
        p2 == set(p1, FLAG_Z, r.result = 0)
        p3 == set(p2, FLAG_V, (lhs_sign = rhs_sign) /\ (lhs_sign # result_sign))
        p4 == set(p3, FLAG_N, result_sign # 0)
    IN [cpu EXCEPT !.a = r.result, !.p = p4]

compare(cpu, lhs, rhs) ==
    LET result == Wrap8(lhs + 256 - rhs)
    IN [cpu EXCEPT !.p = set_zn(set(cpu.p, FLAG_C, lhs >= rhs), result)]

\* instructions that only read their operand: the CPU after the instruction
ReadInstrs ==
    {"Adc", "Sbc", "And", "Eor", "Ora", "Cmp", "Cpx", "Cpy", "Bit",
     "Lda", "Ldx", "Ldy", "Lax", "Anc", "Alr", "Arr", "Ane", "Lxa", "Las", "Sbx"}

ReadOp(instr, cpu, v) ==
    CASE instr = "Adc" -> execute_add(cpu, v)
      [] instr = "Sbc" -> execute_add(cpu, Not8(v))
      [] instr = "And" ->
            LET r == BitAnd(cpu.a, v) IN [cpu EXCEPT !.a = r, !.p = set_zn(@, r)]
      [] instr = "Eor" ->
            LET r == BitXor(cpu.a, v) IN [cpu EXCEPT !.a = r, !.p = set_zn(@, r)]
      [] instr = "Ora" ->
            LET r == BitOr(cpu.a, v) IN [cpu EXCEPT !.a = r, !.p = set_zn(@, r)]
      [] instr = "Cmp" -> compare(cpu, cpu.a, v)
      [] instr = "Cpx" -> compare(cpu, cpu.x, v)
      [] instr = "Cpy" -> compare(cpu, cpu.y, v)
      [] instr = "Bit" ->
            [cpu EXCEPT !.p = set(set(set(@, FLAG_Z, BitAnd(cpu.a, v) = 0),
                                      FLAG_V, BitAnd(v, 64) # 0),
                                  FLAG_N, BitAnd(v, 128) # 0)]
      [] instr = "Lda" -> [cpu EXCEPT !.a = v, !.p = set_zn(@, v)]
      [] instr = "Ldx" -> [cpu EXCEPT !.x = v, !.p = set_zn(@, v)]
      [] instr = "Ldy" -> [cpu EXCEPT !.y = v, !.p = set_zn(@, v)]
      [] instr = "Lax" -> [cpu EXCEPT !.a = v, !.x = v, !.p = set_zn(@, v)]
      [] instr = "Anc" ->
            LET r == BitAnd(cpu.a, v)
            IN [cpu EXCEPT !.a = r,
                           !.p = set_zn(set(@, FLAG_C, BitAnd(cpu.a, 128) # 0), r)]
      [] instr = "Alr" ->
            LET and_result == BitAnd(cpu.a, v)
                r == Shr(and_result, 1)
            IN [cpu EXCEPT !.a = r,
                           !.p = set_zn(set(@, FLAG_C, BitAnd(and_result, 1) # 0), r)]
      [] instr = "Arr" ->
            LET and_result == BitAnd(cpu.a, v)
                r == BitOr(Shr(and_result, 1),
                           Shl8(BoolToInt(contains(cpu.p, FLAG_C)), 7))
            IN [cpu EXCEPT !.a = r,
                           !.p = set_zn(set(@, FLAG_C, BitAnd(and_result, 1) # 0), r)]
      [] instr = "Ane" ->
            LET r == BitAnd(BitAnd(cpu.a, cpu.x), v)
            IN [cpu EXCEPT !.a = r, !.p = set_zn(@, r)]
      [] instr = "Lxa" ->
            LET r == BitAnd(cpu.a, v) IN [cpu EXCEPT !.a = r, !.x = r]
      [] instr = "Las" ->
            LET r == BitAnd(v, cpu.s)
            IN [cpu EXCEPT !.a = r, !.x = r, !.s = r, !.p = set_zn(@, r)]
      [] instr = "Sbx" ->
            LET lhs == BitAnd(cpu.a, cpu.x)
                r == Wrap8(lhs + 256 - v)
            IN [cpu EXCEPT !.x = r,
                           !.p = set_zn(set(@, FLAG_C, lhs >= v), r)]

\* read-modify-write instructions: the byte written back ...
RmwInstrs ==
    {"Asl", "Lsr", "Rol", "Ror", "Inc", "Dec",
     "Dcp", "Isb", "Slo", "Rla", "Sre", "Rra"}

RmwResult(instr, cpu, lhs) ==
    LET c == BoolToInt(contains(cpu.p, FLAG_C))
    IN CASE instr \in {"Asl", "Slo"} -> Shl8(lhs, 1)
         [] instr \in {"Lsr", "Sre"} -> Shr(lhs, 1)
         [] instr \in {"Rol", "Rla"} -> BitOr(Shl8(lhs, 1), c)
         [] instr \in {"Ror", "Rra"} -> BitOr(Shr(lhs, 1), Shl8(c, 7))
         [] instr \in {"Inc", "Isb"} -> Wrap8(lhs + 1)
         [] instr \in {"Dec", "Dcp"} -> Wrap8(lhs + 255)

\* ... and the CPU after the instruction, from the CPU after the write
RmwAfter(instr, cpu, lhs, result) ==
    LET hi == BitAnd(lhs, 128) # 0
        lo == BitAnd(lhs, 1) # 0
    IN CASE instr \in {"Asl", "Rol"} ->
              [cpu EXCEPT !.p = set_zn(set(@, FLAG_C, hi), result)]
         [] instr \in {"Lsr", "Ror"} ->
              [cpu EXCEPT !.p = set_zn(set(@, FLAG_C, lo), result)]
         [] instr \in {"Inc", "Dec"} ->
              [cpu EXCEPT !.p = set_zn(@, result)]
         [] instr = "Dcp" -> compare(cpu, cpu.a, result)
         [] instr = "Isb" -> execute_add(cpu, Not8(result))
         [] instr = "Rla" ->
              LET a == BitAnd(cpu.a, result)
              IN [cpu EXCEPT !.a = a, !.p = set_zn(set(@, FLAG_C, hi), a)]
         [] instr = "Rra" ->
              execute_add([cpu EXCEPT !.p = set(@, FLAG_C, lo)], result)
         [] instr = "Slo" ->
              LET a == BitOr(cpu.a, result)
              IN [cpu EXCEPT !.a = a, !.p = set_zn(set(@, FLAG_C, hi), a)]
         [] instr = "Sre" ->
              LET a == BitXor(cpu.a, result)
              IN [cpu EXCEPT !.a = a, !.p = set_zn(set(@, FLAG_C, lo), a)]

StoreInstrs == {"Sta", "Stx", "Sty", "Sax"}

StoreValue(instr, cpu) ==
    CASE instr = "Sta" -> cpu.a
      [] instr = "Stx" -> cpu.x
      [] instr = "Sty" -> cpu.y
      [] instr = "Sax" -> BitAnd(cpu.a, cpu.x)

UnstableInstrs == {"Sha", "Shx", "Shy", "Tas"}

UnstableValue(instr, cpu) ==
    CASE instr \in {"Sha", "Tas"} -> BitAnd(cpu.a, cpu.x)
      [] instr = "Shx" -> cpu.x
      [] instr = "Shy" -> cpu.y

BranchInstrs == {"Bcs", "Bcc", "Beq", "Bne", "Bmi", "Bpl", "Bvs", "Bvc"}

BranchCondition(instr, p) ==
    CASE instr = "Bcs" -> contains(p, FLAG_C)
      [] instr = "Bcc" -> ~contains(p, FLAG_C)
      [] instr = "Beq" -> contains(p, FLAG_Z)
      [] instr = "Bne" -> ~contains(p, FLAG_Z)
      [] instr = "Bmi" -> contains(p, FLAG_N)
      [] instr = "Bpl" -> ~contains(p, FLAG_N)
      [] instr = "Bvs" -> contains(p, FLAG_V)
      [] instr = "Bvc" -> ~contains(p, FLAG_V)

RegisterInstrs ==
    {"Clc", "Cld", "Cli", "Clv", "Sec", "Sed", "Sei", "Inx", "Iny", "Dex",
     "Dey", "Tax", "Tay", "Txa", "Tya", "Tsx", "Txs"}

RegisterOp(instr, cpu) ==
    CASE instr = "Clc" -> [cpu EXCEPT !.p = remove(@, FLAG_C)]
      [] instr = "Cld" -> [cpu EXCEPT !.p = remove(@, FLAG_D)]
      [] instr = "Cli" -> [cpu EXCEPT !.p = remove(@, FLAG_I)]
      [] instr = "Clv" -> [cpu EXCEPT !.p = remove(@, FLAG_V)]
      [] instr = "Sec" -> [cpu EXCEPT !.p = insert(@, FLAG_C)]
      [] instr = "Sed" -> [cpu EXCEPT !.p = insert(@, FLAG_D)]
      [] instr = "Sei" -> [cpu EXCEPT !.p = insert(@, FLAG_I)]
      [] instr = "Inx" ->
            LET r == Wrap8(cpu.x + 1) IN [cpu EXCEPT !.x = r, !.p = set_zn(@, r)]
      [] instr = "Iny" ->
            LET r == Wrap8(cpu.y + 1) IN [cpu EXCEPT !.y = r, !.p = set_zn(@, r)]
      [] instr = "Dex" ->
            LET r == Wrap8(cpu.x + 255) IN [cpu EXCEPT !.x = r, !.p = set_zn(@, r)]
      [] instr = "Dey" ->
            LET r == Wrap8(cpu.y + 255) IN [cpu EXCEPT !.y = r, !.p = set_zn(@, r)]
      [] instr = "Tax" -> [cpu EXCEPT !.x = cpu.a, !.p = set_zn(@, cpu.a)]
      [] instr = "Tay" -> [cpu EXCEPT !.y = cpu.a, !.p = set_zn(@, cpu.a)]
      [] instr = "Txa" -> [cpu EXCEPT !.a = cpu.x, !.p = set_zn(@, cpu.x)]
      [] instr = "Tya" -> [cpu EXCEPT !.a = cpu.y, !.p = set_zn(@, cpu.y)]
      [] instr = "Tsx" -> [cpu EXCEPT !.x = cpu.s, !.p = set_zn(@, cpu.s)]
      [] instr = "Txs" -> [cpu EXCEPT !.s = cpu.x]

\* what Instruction::execute returns: the machine after the instruction
\* with the returned value (branch taken) in ret
Done(m, taken) == [m EXCEPT !.ret = taken]

\* the closing jump of a sequence that read its target from the bus
Jump(r) == [r EXCEPT !.cpu.pc = r.ret]

\* Instruction::execute, from the machine decode left
Instruction_execute(instr, m) ==
    CASE instr \in ReadInstrs ->
            LET Apply(d) ==
                    Done([d EXCEPT !.cpu = ReadOp(instr, @, d.ret)], instr = "Las")
            IN Apply(produce_data(m, m.mode))
      [] instr \in RmwInstrs ->
            LET Modify(d, result) ==
                    Done([consume_data(d, m.mode, result)
                            EXCEPT !.cpu = RmwAfter(instr, @, d.ret, result)],
                         FALSE)
                Apply(d) == Modify(d, RmwResult(instr, d.cpu, d.ret))
            IN Apply(produce_data(m, m.mode))
      [] instr \in StoreInstrs ->
            Done(consume_data(m, m.mode, StoreValue(instr, m.cpu)), FALSE)
      [] instr \in UnstableInstrs ->
            Done([consume_data_unstable(m, m.mode, UnstableValue(instr, m.cpu))
                    EXCEPT !.cpu.s = IF instr = "Tas"
                                     THEN BitAnd(m.cpu.a, m.cpu.x) ELSE @],
                 FALSE)
      [] instr \in BranchInstrs ->
            Done([m EXCEPT !.cpu.pc = IF BranchCondition(instr, m.cpu.p)
                                      THEN produce_address(m.mode) ELSE @],
                 BranchCondition(instr, m.cpu.p))
      [] instr \in RegisterInstrs ->
            Done([m EXCEPT !.cpu = RegisterOp(instr, @)], FALSE)
      [] instr = "Nop" ->
            Done(IF m.mode.kind \in {"Implicit", "Immediate"}
                 THEN m ELSE produce_data(m, m.mode), FALSE)
      [] instr = "Brk" ->
            LET Status(s) == push(s, BitOr(BitOr(s.cpu.p, U_FLAG), B_FLAG))
            IN Done(Jump(CpuBus_read_16(
                           [Status(push_16(m, Wrap16(m.cpu.pc + 1)))
                               EXCEPT !.cpu.p = insert(@, FLAG_I)],
                           IRQ_VECTOR)),
                    FALSE)
      [] instr = "Jmp" ->
            Done([m EXCEPT !.cpu.pc = produce_address(m.mode)], FALSE)
      [] instr = "Jsr" ->
            Done([push_16(m, Wrap16(m.cpu.pc + 65535))
                    EXCEPT !.cpu.pc = produce_address(m.mode)], FALSE)
      [] instr = "Rts" ->
            LET Return(r) == [r EXCEPT !.cpu.pc = Wrap16(r.ret + 1)]
            IN Done(Return(pop_16(m)), FALSE)
      [] instr = "Rti" ->
            LET Restore(f) == [f EXCEPT !.cpu.p = from_bits_truncate(f.ret)]
            IN Done(Jump(pop_16(Restore(pop(m)))), FALSE)
      [] instr = "Pha" -> Done(push(m, m.cpu.a), FALSE)
      [] instr = "Php" -> Done(push(m, BitOr(BitOr(m.cpu.p, U_FLAG), B_FLAG)), FALSE)
      [] instr = "Pla" ->
            LET Load(r) == [r EXCEPT !.cpu.a = r.ret, !.cpu.p = set_zn(@, r.ret)]
            IN Done(Load(pop(m)), FALSE)
      [] instr = "Plp" ->
            LET Restore(f) == [f EXCEPT !.cpu.p = from_bits_truncate(f.ret)]
            IN Done(Restore(pop(m)), FALSE)

\* the dispatch of Cpu::clock (cpu.rs) joined with CYCLE_COUNT and
\* AFFECTED_BY_PAGE_CROSS of each (instruction, mode) (instruction.rs);
\* entry i + 1 is opcode i, "Illegal" is the panicking default arm
InstrTable ==
    << [instr |-> "Brk", mode |-> "Implicit", cycles |-> 7, page |-> FALSE],
       [instr |-> "Ora", mode |-> "OffsetXIndirect", cycles |-> 6, page |-> FALSE],
       [instr |-> "Illegal", mode |-> "Implicit", cycles |-> 0, page |-> FALSE],
       [instr |-> "Slo", mode |-> "OffsetXIndirect", cycles |-> 8, page |-> FALSE],
       [instr |-> "Nop", mode |-> "ZeroPage", cycles |-> 3, page |-> FALSE],
       [instr |-> "Ora", mode |-> "ZeroPage", cycles |-> 3, page |-> FALSE],
       [instr |-> "Asl", mode |-> "ZeroPage", cycles |-> 5, page |-> FALSE],
       [instr |-> "Slo", mode |-> "ZeroPage", cycles |-> 5, page |-> FALSE],
       [instr |-> "Php", mode |-> "Implicit", cycles |-> 3, page |-> FALSE],
       [instr |-> "Ora", mode |-> "Immediate", cycles |-> 2, page |-> FALSE],
       [instr |-> "Asl", mode |-> "Accumulator", cycles |-> 2, page |-> FALSE],
       [instr |-> "Anc", mode |-> "Immediate", cycles |-> 2, page |-> FALSE],
       [instr |-> "Nop", mode |-> "Absolute", cycles |-> 4, page |-> FALSE],
       [instr |-> "Ora", mode |-> "Absolute", cycles |-> 4, page |-> FALSE],
       [instr |-> "Asl", mode |-> "Absolute", cycles |-> 6, page |-> FALSE],
       [instr |-> "Slo", mode |-> "Absolute", cycles |-> 6, page |-> FALSE],
       [instr |-> "Bpl", mode |-> "Relative", cycles |-> 2, page |-> TRUE],
       [instr |-> "Ora", mode |-> "IndirectOffsetY", cycles |-> 5, page |-> TRUE],
       [instr |-> "Illegal", mode |-> "Implicit", cycles |-> 0, page |-> FALSE],
       [instr |-> "Slo", mode |-> "IndirectOffsetY", cycles |-> 8, page |-> FALSE],
       [instr |-> "Nop", mode |-> "ZeroPageOffsetX", cycles |-> 4, page |-> FALSE],
       [instr |-> "Ora", mode |-> "ZeroPageOffsetX", cycles |-> 4, page |-> FALSE],
       [instr |-> "Asl", mode |-> "ZeroPageOffsetX", cycles |-> 6, page |-> FALSE],
       [instr |-> "Slo", mode |-> "ZeroPageOffsetX", cycles |-> 6, page |-> FALSE],
       [instr |-> "Clc", mode |-> "Implicit", cycles |-> 2, page |-> FALSE],
       [instr |-> "Ora", mode |-> "AbsoluteOffsetY", cycles |-> 4, page |-> TRUE],
       [instr |-> "Nop", mode |-> "Implicit", cycles |-> 2, page |-> FALSE],
       [instr |-> "Slo", mode |-> "AbsoluteOffsetY", cycles |-> 7, page |-> FALSE],
       [instr |-> "Nop", mode |-> "AbsoluteOffsetX", cycles |-> 4, page |-> TRUE],
       [instr |-> "Ora", mode |-> "AbsoluteOffsetX", cycles |-> 4, page |-> TRUE],
       [instr |-> "Asl", mode |-> "AbsoluteOffsetX", cycles |-> 7, page |-> FALSE],
       [instr |-> "Slo", mode |-> "AbsoluteOffsetX", cycles |-> 7, page |-> FALSE],
       [instr |-> "Jsr", mode |-> "Absolute", cycles |-> 6, page |-> FALSE],
       [instr |-> "And", mode |-> "OffsetXIndirect", cycles |-> 6, page |-> FALSE],
       [instr |-> "Illegal", mode |-> "Implicit", cycles |-> 0, page |-> FALSE],
       [instr |-> "Rla", mode |-> "OffsetXIndirect", cycles |-> 8, page |-> FALSE],
       [instr |-> "Bit", mode |-> "ZeroPage", cycles |-> 3, page |-> FALSE],
       [instr |-> "And", mode |-> "ZeroPage", cycles |-> 3, page |-> FALSE],
       [instr |-> "Rol", mode |-> "ZeroPage", cycles |-> 5, page |-> FALSE],
       [instr |-> "Rla", mode |-> "ZeroPage", cycles |-> 5, page |-> FALSE],
       [instr |-> "Plp", mode |-> "Implicit", cycles |-> 4, page |-> FALSE],
       [instr |-> "And", mode |-> "Immediate", cycles |-> 2, page |-> FALSE],
       [instr |-> "Rol", mode |-> "Accumulator", cycles |-> 2, page |-> FALSE],
       [instr |-> "Anc", mode |-> "Immediate", cycles |-> 2, page |-> FALSE],
       [instr |-> "Bit", mode |-> "Absolute", cycles |-> 4, page |-> FALSE],
       [instr |-> "And", mode |-> "Absolute", cycles |-> 4, page |-> FALSE],
       [instr |-> "Rol", mode |-> "Absolute", cycles |-> 6, page |-> FALSE],
       [instr |-> "Rla", mode |-> "Absolute", cycles |-> 6, page |-> FALSE],
       [instr |-> "Bmi", mode |-> "Relative", cycles |-> 2, page |-> TRUE],
       [instr |-> "And", mode |-> "IndirectOffsetY", cycles |-> 5, page |-> TRUE],
       [instr |-> "Illegal", mode |-> "Implicit", cycles |-> 0, page |-> FALSE],
       [instr |-> "Rla", mode |-> "IndirectOffsetY", cycles |-> 8, page |-> FALSE],
       [instr |-> "Nop", mode |-> "ZeroPageOffsetX", cycles |-> 4, page |-> FALSE],
       [instr |-> "And", mode |-> "ZeroPageOffsetX", cycles |-> 4, page |-> FALSE],
       [instr |-> "Rol", mode |-> "ZeroPageOffsetX", cycles |-> 6, page |-> FALSE],
       [instr |-> "Rla", mode |-> "ZeroPageOffsetX", cycles |-> 6, page |-> FALSE],
       [instr |-> "Sec", mode |-> "Implicit", cycles |-> 2, page |-> FALSE],
       [instr |-> "And", mode |-> "AbsoluteOffsetY", cycles |-> 4, page |-> TRUE],
       [instr |-> "Nop", mode |-> "Implicit", cycles |-> 2, page |-> FALSE],
       [instr |-> "Rla", mode |-> "AbsoluteOffsetY", cycles |-> 7, page |-> FALSE],
       [instr |-> "Nop", mode |-> "AbsoluteOffsetX", cycles |-> 4, page |-> TRUE],
       [instr |-> "And", mode |-> "AbsoluteOffsetX", cycles |-> 4, page |-> TRUE],
       [instr |-> "Rol", mode |-> "AbsoluteOffsetX", cycles |-> 7, page |-> FALSE],
       [instr |-> "Rla", mode |-> "AbsoluteOffsetX", cycles |-> 7, page |-> FALSE],
       [instr |-> "Rti", mode |-> "Implicit", cycles |-> 6, page |-> FALSE],
       [instr |-> "Eor", mode |-> "OffsetXIndirect", cycles |-> 6, page |-> FALSE],
       [instr |-> "Illegal", mode |-> "Implicit", cycles |-> 0, page |-> FALSE],
       [instr |-> "Sre", mode |-> "OffsetXIndirect", cycles |-> 8, page |-> FALSE],
       [instr |-> "Nop", mode |-> "ZeroPage", cycles |-> 3, page |-> FALSE],
       [instr |-> "Eor", mode |-> "ZeroPage", cycles |-> 3, page |-> FALSE],
       [instr |-> "Lsr", mode |-> "ZeroPage", cycles |-> 5, page |-> FALSE],
       [instr |-> "Sre", mode |-> "ZeroPage", cycles |-> 5, page |-> FALSE],
       [instr |-> "Pha", mode |-> "Implicit", cycles |-> 3, page |-> FALSE],
       [instr |-> "Eor", mode |-> "Immediate", cycles |-> 2, page |-> FALSE],
       [instr |-> "Lsr", mode |-> "Accumulator", cycles |-> 2, page |-> FALSE],
       [instr |-> "Alr", mode |-> "Immediate", cycles |-> 2, page |-> FALSE],
       [instr |-> "Jmp", mode |-> "Absolute", cycles |-> 3, page |-> FALSE],
       [instr |-> "Eor", mode |-> "Absolute", cycles |-> 4, page |-> FALSE],
       [instr |-> "Lsr", mode |-> "Absolute", cycles |-> 6, page |-> FALSE],
       [instr |-> "Sre", mode |-> "Absolute", cycles |-> 6, page |-> FALSE],
       [instr |-> "Bvc", mode |-> "Relative", cycles |-> 2, page |-> TRUE],
       [instr |-> "Eor", mode |-> "IndirectOffsetY", cycles |-> 5, page |-> TRUE],
       [instr |-> "Illegal", mode |-> "Implicit", cycles |-> 0, page |-> FALSE],
       [instr |-> "Sre", mode |-> "IndirectOffsetY", cycles |-> 8, page |-> FALSE],
       [instr |-> "Nop", mode |-> "ZeroPageOffsetX", cycles |-> 4, page |-> FALSE],
       [instr |-> "Eor", mode |-> "ZeroPageOffsetX", cycles |-> 4, page |-> FALSE],
       [instr |-> "Lsr", mode |-> "ZeroPageOffsetX", cycles |-> 6, page |-> FALSE],
       [instr |-> "Sre", mode |-> "ZeroPageOffsetX", cycles |-> 6, page |-> FALSE],
       [instr |-> "Cli", mode |-> "Implicit", cycles |-> 2, page |-> FALSE],
       [instr |-> "Eor", mode |-> "AbsoluteOffsetY", cycles |-> 4, page |-> TRUE],
       [instr |-> "Nop", mode |-> "Implicit", cycles |-> 2, page |-> FALSE],
       [instr |-> "Sre", mode |-> "AbsoluteOffsetY", cycles |-> 7, page |-> FALSE],
       [instr |-> "Nop", mode |-> "AbsoluteOffsetX", cycles |-> 4, page |-> TRUE],
       [instr |-> "Eor", mode |-> "AbsoluteOffsetX", cycles |-> 4, page |-> TRUE],
       [instr |-> "Lsr", mode |-> "AbsoluteOffsetX", cycles |-> 7, page |-> FALSE],
       [instr |-> "Sre", mode |-> "AbsoluteOffsetX", cycles |-> 7, page |-> FALSE],
       [instr |-> "Rts", mode |-> "Implicit", cycles |-> 6, page |-> FALSE],
       [instr |-> "Adc", mode |-> "OffsetXIndirect", cycles |-> 6, page |-> FALSE],
       [instr |-> "Illegal", mode |-> "Implicit", cycles |-> 0, page |-> FALSE],
       [instr |-> "Rra", mode |-> "OffsetXIndirect", cycles |-> 8, page |-> FALSE],
       [instr |-> "Nop", mode |-> "ZeroPage", cycles |-> 3, page |-> FALSE],
       [instr |-> "Adc", mode |-> "ZeroPage", cycles |-> 3, page |-> FALSE],
       [instr |-> "Ror", mode |-> "ZeroPage", cycles |-> 5, page |-> FALSE],
       [instr |-> "Rra", mode |-> "ZeroPage", cycles |-> 5, page |-> FALSE],
       [instr |-> "Pla", mode |-> "Implicit", cycles |-> 4, page |-> FALSE],
       [instr |-> "Adc", mode |-> "Immediate", cycles |-> 2, page |-> FALSE],
       [instr |-> "Ror", mode |-> "Accumulator", cycles |-> 2, page |-> FALSE],
       [instr |-> "Arr", mode |-> "Immediate", cycles |-> 2, page |-> FALSE],
       [instr |-> "Jmp", mode |-> "Indirect", cycles |-> 5, page |-> FALSE],
       [instr |-> "Adc", mode |-> "Absolute", cycles |-> 4, page |-> FALSE],
       [instr |-> "Ror", mode |-> "Absolute", cycles |-> 6, page |-> FALSE],
       [instr |-> "Rra", mode |-> "Absolute", cycles |-> 6, page |-> FALSE],
       [instr |-> "Bvs", mode |-> "Relative", cycles |-> 2, page |-> TRUE],
       [instr |-> "Adc", mode |-> "IndirectOffsetY", cycles |-> 5, page |-> TRUE],
       [instr |-> "Illegal", mode |-> "Implicit", cycles |-> 0, page |-> FALSE],
       [instr |-> "Rra", mode |-> "IndirectOffsetY", cycles |-> 8, page |-> FALSE],
       [instr |-> "Nop", mode |-> "ZeroPageOffsetX", cycles |-> 4, page |-> FALSE],
       [instr |-> "Adc", mode |-> "ZeroPageOffsetX", cycles |-> 4, page |-> FALSE],
       [instr |-> "Ror", mode |-> "ZeroPageOffsetX", cycles |-> 6, page |-> FALSE],
       [instr |-> "Rra", mode |-> "ZeroPageOffsetX", cycles |-> 6, page |-> FALSE],
       [instr |-> "Sei", mode |-> "Implicit", cycles |-> 2, page |-> FALSE],
       [instr |-> "Adc", mode |-> "AbsoluteOffsetY", cycles |-> 4, page |-> TRUE],
       [instr |-> "Nop", mode |-> "Implicit", cycles |-> 2, page |-> FALSE],
       [instr |-> "Rra", mode |-> "AbsoluteOffsetY", cycles |-> 7, page |-> FALSE],
       [instr |-> "Nop", mode |-> "AbsoluteOffsetX", cycles |-> 4, page |-> TRUE],
       [instr |-> "Adc", mode |-> "AbsoluteOffsetX", cycles |-> 4, page |-> TRUE],
       [instr |-> "Ror", mode |-> "AbsoluteOffsetX", cycles |-> 7, page |-> FALSE],
       [instr |-> "Rra", mode |-> "AbsoluteOffsetX", cycles |-> 7, page |-> FALSE],
       [instr |-> "Nop", mode |-> "Immediate", cycles |-> 2, page |-> FALSE],
       [instr |-> "Sta", mode |-> "OffsetXIndirect", cycles |-> 6, page |-> FALSE],
       [instr |-> "Nop", mode |-> "Immediate", cycles |-> 2, page |-> FALSE],
       [instr |-> "Sax", mode |-> "OffsetXIndirect", cycles |-> 6, page |-> FALSE],
       [instr |-> "Sty", mode |-> "ZeroPage", cycles |-> 3, page |-> FALSE],
       [instr |-> "Sta", mode |-> "ZeroPage", cycles |-> 3, page |-> FALSE],
       [instr |-> "Stx", mode |-> "ZeroPage", cycles |-> 3, page |-> FALSE],
       [instr |-> "Sax", mode |-> "ZeroPage", cycles |-> 3, page |-> FALSE],
       [instr |-> "Dey", mode |-> "Implicit", cycles |-> 2, page |-> FALSE],
       [instr |-> "Nop", mode |-> "Immediate", cycles |-> 2, page |-> FALSE],
       [instr |-> "Txa", mode |-> "Implicit", cycles |-> 2, page |-> FALSE],
       [instr |-> "Ane", mode |-> "Immediate", cycles |-> 2, page |-> FALSE],
       [instr |-> "Sty", mode |-> "Absolute", cycles |-> 4, page |-> FALSE],
       [instr |-> "Sta", mode |-> "Absolute", cycles |-> 4, page |-> FALSE],
       [instr |-> "Stx", mode |-> "Absolute", cycles |-> 4, page |-> FALSE],
       [instr |-> "Sax", mode |-> "Absolute", cycles |-> 4, page |-> FALSE],
       [instr |-> "Bcc", mode |-> "Relative", cycles |-> 2, page |-> TRUE],
       [instr |-> "Sta", mode |-> "IndirectOffsetY", cycles |-> 6, page |-> FALSE],
       [instr |-> "Illegal", mode |-> "Implicit", cycles |-> 0, page |-> FALSE],
       [instr |-> "Sha", mode |-> "IndirectOffsetYUnstable", cycles |-> 6, page |-> FALSE],
       [instr |-> "Sty", mode |-> "ZeroPageOffsetX", cycles |-> 4, page |-> FALSE],
       [instr |-> "Sta", mode |-> "ZeroPageOffsetX", cycles |-> 4, page |-> FALSE],
       [instr |-> "Stx", mode |-> "ZeroPageOffsetY", cycles |-> 4, page |-> FALSE],
       [instr |-> "Sax", mode |-> "ZeroPageOffsetY", cycles |-> 4, page |-> FALSE],
       [instr |-> "Tya", mode |-> "Implicit", cycles |-> 2, page |-> FALSE],
       [instr |-> "Sta", mode |-> "AbsoluteOffsetY", cycles |-> 5, page |-> FALSE],
       [instr |-> "Txs", mode |-> "Implicit", cycles |-> 2, page |-> FALSE],
       [instr |-> "Tas", mode |-> "AbsoluteOffsetYUnstable", cycles |-> 5, page |-> FALSE],
       [instr |-> "Shy", mode |-> "AbsoluteOffsetXUnstable", cycles |-> 5, page |-> FALSE],
       [instr |-> "Sta", mode |-> "AbsoluteOffsetX", cycles |-> 5, page |-> FALSE],
       [instr |-> "Shx", mode |-> "AbsoluteOffsetYUnstable", cycles |-> 5, page |-> FALSE],
       [instr |-> "Sha", mode |-> "AbsoluteOffsetYUnstable", cycles |-> 5, page |-> FALSE],
       [instr |-> "Ldy", mode |-> "Immediate", cycles |-> 2, page |-> FALSE],
       [instr |-> "Lda", mode |-> "OffsetXIndirect", cycles |-> 6, page |-> FALSE],
       [instr |-> "Ldx", mode |-> "Immediate", cycles |-> 2, page |-> FALSE],
       [instr |-> "Lax", mode |-> "OffsetXIndirect", cycles |-> 6, page |-> FALSE],
       [instr |-> "Ldy", mode |-> "ZeroPage", cycles |-> 3, page |-> FALSE],
       [instr |-> "Lda", mode |-> "ZeroPage", cycles |-> 3, page |-> FALSE],
       [instr |-> "Ldx", mode |-> "ZeroPage", cycles |-> 3, page |-> FALSE],
       [instr |-> "Lax", mode |-> "ZeroPage", cycles |-> 3, page |-> FALSE],
       [instr |-> "Tay", mode |-> "Implicit", cycles |-> 2, page |-> FALSE],
       [instr |-> "Lda", mode |-> "Immediate", cycles |-> 2, page |-> FALSE],
       [instr |-> "Tax", mode |-> "Implicit", cycles |-> 2, page |-> FALSE],
       [instr |-> "Lxa", mode |-> "Immediate", cycles |-> 2, page |-> FALSE],
       [instr |-> "Ldy", mode |-> "Absolute", cycles |-> 4, page |-> FALSE],
       [instr |-> "Lda", mode |-> "Absolute", cycles |-> 4, page |-> FALSE],
       [instr |-> "Ldx", mode |-> "Absolute", cycles |-> 4, page |-> FALSE],
       [instr |-> "Lax", mode |-> "Absolute", cycles |-> 4, page |-> FALSE],
       [instr |-> "Bcs", mode |-> "Relative", cycles |-> 2, page |-> TRUE],
       [instr |-> "Lda", mode |-> "IndirectOffsetY", cycles |-> 5, page |-> TRUE],
       [instr |-> "Illegal", mode |-> "Implicit", cycles |-> 0, page |-> FALSE],
       [instr |-> "Lax", mode |-> "IndirectOffsetY", cycles |-> 5, page |-> TRUE],
       [instr |-> "Ldy", mode |-> "ZeroPageOffsetX", cycles |-> 4, page |-> FALSE],
       [instr |-> "Lda", mode |-> "ZeroPageOffsetX", cycles |-> 4, page |-> FALSE],
       [instr |-> "Ldx", mode |-> "ZeroPageOffsetY", cycles |-> 4, page |-> FALSE],
       [instr |-> "Lax", mode |-> "ZeroPageOffsetY", cycles |-> 4, page |-> FALSE],
       [instr |-> "Clv", mode |-> "Implicit", cycles |-> 2, page |-> FALSE],
       [instr |-> "Lda", mode |-> "AbsoluteOffsetY", cycles |-> 4, page |-> TRUE],
       [instr |-> "Tsx", mode |-> "Implicit", cycles |-> 2, page |-> FALSE],
       [instr |-> "Las", mode |-> "AbsoluteOffsetY", cycles |-> 4, page |-> FALSE],
       [instr |-> "Ldy", mode |-> "AbsoluteOffsetX", cycles |-> 4, page |-> TRUE],
       [instr |-> "Lda", mode |-> "AbsoluteOffsetX", cycles |-> 4, page |-> TRUE],
       [instr |-> "Ldx", mode |-> "AbsoluteOffsetY", cycles |-> 4, page |-> TRUE],
       [instr |-> "Lax", mode |-> "AbsoluteOffsetY", cycles |-> 4, page |-> TRUE],
       [instr |-> "Cpy", mode |-> "Immediate", cycles |-> 2, page |-> FALSE],
       [instr |-> "Cmp", mode |-> "OffsetXIndirect", cycles |-> 6, page |-> FALSE],
       [instr |-> "Nop", mode |-> "Immediate", cycles |-> 2, page |-> FALSE],
       [instr |-> "Dcp", mode |-> "OffsetXIndirect", cycles |-> 8, page |-> FALSE],
       [instr |-> "Cpy", mode |-> "ZeroPage", cycles |-> 3, page |-> FALSE],
       [instr |-> "Cmp", mode |-> "ZeroPage", cycles |-> 3, page |-> FALSE],
       [instr |-> "Dec", mode |-> "ZeroPage", cycles |-> 5, page |-> FALSE],
       [instr |-> "Dcp", mode |-> "ZeroPage", cycles |-> 5, page |-> FALSE],
       [instr |-> "Iny", mode |-> "Implicit", cycles |-> 2, page |-> FALSE],
       [instr |-> "Cmp", mode |-> "Immediate", cycles |-> 2, page |-> FALSE],
       [instr |-> "Dex", mode |-> "Implicit", cycles |-> 2, page |-> FALSE],
       [instr |-> "Sbx", mode |-> "Immediate", cycles |-> 2, page |-> FALSE],
       [instr |-> "Cpy", mode |-> "Absolute", cycles |-> 4, page |-> FALSE],
       [instr |-> "Cmp", mode |-> "Absolute", cycles |-> 4, page |-> FALSE],
       [instr |-> "Dec", mode |-> "Absolute", cycles |-> 6, page |-> FALSE],
       [instr |-> "Dcp", mode |-> "Absolute", cycles |-> 6, page |-> FALSE],
       [instr |-> "Bne", mode |-> "Relative", cycles |-> 2, page |-> TRUE],
       [instr |-> "Cmp", mode |-> "IndirectOffsetY", cycles |-> 5, page |-> TRUE],
       [instr |-> "Illegal", mode |-> "Implicit", cycles |-> 0, page |-> FALSE],
       [instr |-> "Dcp", mode |-> "IndirectOffsetY", cycles |-> 8, page |-> FALSE],
       [instr |-> "Nop", mode |-> "ZeroPageOffsetX", cycles |-> 4, page |-> FALSE],
       [instr |-> "Cmp", mode |-> "ZeroPageOffsetX", cycles |-> 4, page |-> FALSE],
       [instr |-> "Dec", mode |-> "ZeroPageOffsetX", cycles |-> 6, page |-> FALSE],
       [instr |-> "Dcp", mode |-> "ZeroPageOffsetX", cycles |-> 6, page |-> FALSE],
       [instr |-> "Cld", mode |-> "Implicit", cycles |-> 2, page |-> FALSE],
       [instr |-> "Cmp", mode |-> "AbsoluteOffsetY", cycles |-> 4, page |-> TRUE],
       [instr |-> "Nop", mode |-> "Implicit", cycles |-> 2, page |-> FALSE],
       [instr |-> "Dcp", mode |-> "AbsoluteOffsetY", cycles |-> 7, page |-> FALSE],
       [instr |-> "Nop", mode |-> "AbsoluteOffsetX", cycles |-> 4, page |-> TRUE],
       [instr |-> "Cmp", mode |-> "AbsoluteOffsetX", cycles |-> 4, page |-> TRUE],
       [instr |-> "Dec", mode |-> "AbsoluteOffsetX", cycles |-> 7, page |-> FALSE],
       [instr |-> "Dcp", mode |-> "AbsoluteOffsetX", cycles |-> 7, page |-> FALSE],
       [instr |-> "Cpx", mode |-> "Immediate", cycles |-> 2, page |-> FALSE],
       [instr |-> "Sbc", mode |-> "OffsetXIndirect", cycles |-> 6, page |-> FALSE],
       [instr |-> "Nop", mode |-> "Immediate", cycles |-> 2, page |-> FALSE],
       [instr |-> "Isb", mode |-> "OffsetXIndirect", cycles |-> 8, page |-> FALSE],
       [instr |-> "Cpx", mode |-> "ZeroPage", cycles |-> 3, page |-> FALSE],
       [instr |-> "Sbc", mode |-> "ZeroPage", cycles |-> 3, page |-> FALSE],
       [instr |-> "Inc", mode |-> "ZeroPage", cycles |-> 5, page |-> FALSE],
       [instr |-> "Isb", mode |-> "ZeroPage", cycles |-> 5, page |-> FALSE],
       [instr |-> "Inx", mode |-> "Implicit", cycles |-> 2, page |-> FALSE],
       [instr |-> "Sbc", mode |-> "Immediate", cycles |-> 2, page |-> FALSE],
       [instr |-> "Nop", mode |-> "Implicit", cycles |-> 2, page |-> FALSE],
       [instr |-> "Sbc", mode |-> "Immediate", cycles |-> 2, page |-> FALSE],
       [instr |-> "Cpx", mode |-> "Absolute", cycles |-> 4, page |-> FALSE],
       [instr |-> "Sbc", mode |-> "Absolute", cycles |-> 4, page |-> FALSE],
       [instr |-> "Inc", mode |-> "Absolute", cycles |-> 6, page |-> FALSE],
       [instr |-> "Isb", mode |-> "Absolute", cycles |-> 6, page |-> FALSE],
       [instr |-> "Beq", mode |-> "Relative", cycles |-> 2, page |-> TRUE],
       [instr |-> "Sbc", mode |-> "IndirectOffsetY", cycles |-> 5, page |-> TRUE],
       [instr |-> "Illegal", mode |-> "Implicit", cycles |-> 0, page |-> FALSE],
       [instr |-> "Isb", mode |-> "IndirectOffsetY", cycles |-> 8, page |-> FALSE],
       [instr |-> "Nop", mode |-> "ZeroPageOffsetX", cycles |-> 4, page |-> FALSE],
       [instr |-> "Sbc", mode |-> "ZeroPageOffsetX", cycles |-> 4, page |-> FALSE],
       [instr |-> "Inc", mode |-> "ZeroPageOffsetX", cycles |-> 6, page |-> FALSE],
       [instr |-> "Isb", mode |-> "ZeroPageOffsetX", cycles |-> 6, page |-> FALSE],
       [instr |-> "Sed", mode |-> "Implicit", cycles |-> 2, page |-> FALSE],
       [instr |-> "Sbc", mode |-> "AbsoluteOffsetY", cycles |-> 4, page |-> TRUE],
       [instr |-> "Nop", mode |-> "Implicit", cycles |-> 2, page |-> FALSE],
       [instr |-> "Isb", mode |-> "AbsoluteOffsetY", cycles |-> 7, page |-> FALSE],
       [instr |-> "Nop", mode |-> "AbsoluteOffsetX", cycles |-> 4, page |-> TRUE],
       [instr |-> "Sbc", mode |-> "AbsoluteOffsetX", cycles |-> 4, page |-> TRUE],
       [instr |-> "Inc", mode |-> "AbsoluteOffsetX", cycles |-> 7, page |-> FALSE],
       [instr |-> "Isb", mode |-> "AbsoluteOffsetX", cycles |-> 7, page |-> FALSE] >>

\* instruction::execute: the machine after the instruction, its cost in ret
execute(entry, m) ==
    LET Cost(e) ==
            [e EXCEPT !.ret = entry.cycles
                              + BoolToInt(e.page_crossed /\ entry.page)
                              + BoolToInt(e.ret)]
    IN Cost(Instruction_execute(entry.instr, decode(entry.mode, m)))


\* ------------------------------------------------------------------------
\* cpu.rs: Cpu
\* ------------------------------------------------------------------------

\* Cpu::new: the CPU at power-up, its PC read from the reset vector
Cpu_new(m) ==
    LET PowerUp(v) ==
            [v EXCEPT !.cpu = [a |-> 0, x |-> 0, y |-> 0, s |-> 253, p |-> FLAG_I,
                               pc |-> v.ret, cycle_counter |-> 0,
                               irq_pending |-> FALSE, nmi_pending |-> FALSE]]
    IN PowerUp(CpuBus_read_16(m, RESET_VECTOR))

\* Cpu_reset taking S down by 2
Cpu_reset_mutant(m) ==
    Jump(CpuBus_read_16([m EXCEPT !.cpu.s = Wrap8(@ + 254),
                                  !.cpu.p = insert(@, FLAG_I)],
                        RESET_VECTOR))

Cpu_reset(m) ==
    Jump(CpuBus_read_16([m EXCEPT !.cpu.s = Wrap8(@ + 253),
                                  !.cpu.p = insert(@, FLAG_I)],
                        RESET_VECTOR))

signal_irq(cpu) ==
    IF ~contains(cpu.p, FLAG_I) THEN [cpu EXCEPT !.irq_pending = TRUE] ELSE cpu

signal_nmi(cpu) == [cpu EXCEPT !.nmi_pending = TRUE]

\* Interrupt pushing P with the B bit set
Interrupt_mutant(m, vector) ==
    LET Status(s) == push(s, BitOr(s.cpu.p, BitOr(U_FLAG, B_FLAG)))
    IN Jump(CpuBus_read_16([Status(push_16(m, m.cpu.pc))
                               EXCEPT !.cpu.p = insert(@, FLAG_I)],
                           vector))

\* the interrupt sequence shared by the NMI and IRQ arms of Cpu::clock
Interrupt(m, vector) ==
    LET Status(s) == push(s, BitOr(s.cpu.p, U_FLAG))
    IN Jump(CpuBus_read_16([Status(push_16(m, m.cpu.pc))
                               EXCEPT !.cpu.p = insert(@, FLAG_I)],
                           vector))

\* what Cpu::clock did, for the properties: the kind of operation begun at
\* an instruction boundary (or "countdown"), its opcode and its cost
CpuOp(kind, opcode, cost, cpu) ==
    [kind |-> kind, opcode |-> opcode, cost |-> cost,
     p |-> cpu.p, s |-> cpu.s, pc |-> cpu.pc]

NoOp == [kind |-> "none", opcode |-> 0, cost |-> 0, p |-> 0, s |-> 0, pc |-> 0]

\* the instruction arm of Cpu::clock, from the machine f after the opcode
\* fetch; cpu0 is the CPU at the instruction boundary
Cpu_execute(f, cpu0) ==
    IF InstrTable[f.ret + 1].instr = "Illegal"
    THEN [f EXCEPT !.cpu.pc = Wrap16(@ + 1),
                   !.panicked = TRUE,
                   !.cpu_op = CpuOp("panic", f.ret, 0, cpu0)]
    ELSE LET Retire(e) ==
                 [e EXCEPT !.cpu.cycle_counter = e.ret - 1,
                           !.cpu_op = CpuOp("instr", f.ret, e.ret, cpu0)]
         IN Retire(execute(InstrTable[f.ret + 1],
                           [f EXCEPT !.cpu.pc = Wrap16(@ + 1)]))

\* Cpu_clock servicing a pending NMI whatever the cycle counter holds
Cpu_clock_mutant(m) ==
    IF m.cpu.nmi_pending
    THEN [Interrupt([m EXCEPT !.cpu.nmi_pending = FALSE], NMI_VECTOR)
             EXCEPT !.cpu.cycle_counter = 8 - 1,
                    !.cpu_op = CpuOp("nmi", 0, 8, m.cpu)]
    ELSE IF m.cpu.cycle_counter = 0
    THEN IF m.cpu.irq_pending
         THEN [Interrupt([m EXCEPT !.cpu.irq_pending = FALSE], IRQ_VECTOR)
                  EXCEPT !.cpu.cycle_counter = 7 - 1,
                         !.cpu_op = CpuOp("irq", 0, 7, m.cpu)]
         ELSE Cpu_execute(CpuBus_read(m, m.cpu.pc), m.cpu)
    ELSE [m EXCEPT !.cpu.cycle_counter = @ - 1,
                   !.cpu_op = CpuOp("countdown", 0, 0, m.cpu)]

Cpu_clock(m) ==
    IF m.cpu.cycle_counter = 0
    THEN IF m.cpu.nmi_pending
         THEN [Interrupt([m EXCEPT !.cpu.nmi_pending = FALSE], NMI_VECTOR)
                  EXCEPT !.cpu.cycle_counter = 8 - 1,
                         !.cpu_op = CpuOp("nmi", 0, 8, m.cpu)]
         ELSE IF m.cpu.irq_pending
         THEN [Interrupt([m EXCEPT !.cpu.irq_pending = FALSE], IRQ_VECTOR)
                  EXCEPT !.cpu.cycle_counter = 7 - 1,
                         !.cpu_op = CpuOp("irq", 0, 7, m.cpu)]
         ELSE Cpu_execute(CpuBus_read(m, m.cpu.pc), m.cpu)
    ELSE [m EXCEPT !.cpu.cycle_counter = @ - 1,
                   !.cpu_op = CpuOp("countdown", 0, 0, m.cpu)]

\* ------------------------------------------------------------------------
\* system.rs: System
\* ------------------------------------------------------------------------

Step(m, tag) == [m EXCEPT !.steps = Append(@, tag)]

NoDma == [count |-> 0, halted |-> 0, start_even |-> FALSE,
          started |-> FALSE, done |-> FALSE, oam_addr |-> 0]

\* bookkeeping of a transfer over one master cycle from m to m2
DmaHist(h, m, m2) ==
    IF m.dma.active
    THEN [h EXCEPT !.halted = @ + 1,
                   !.count = IF m.even_cycle THEN @ + 1 ELSE @,
                   !.start_even = IF h.halted = 0 THEN m.even_cycle ELSE @,
                   !.done = ~m2.dma.active]
    ELSE IF m2.dma.active
         THEN [NoDma EXCEPT !.started = TRUE, !.oam_addr = m2.ppu.oam_addr]
         ELSE h

\* registers and latches before the last operation
Snapshot(m) ==
    [cpu |-> m.cpu, last_bus_value |-> m.last_bus_value,
     dma |-> m.dma, even_cycle |-> m.even_cycle, oam_addr |-> m.ppu.oam_addr]

NoPrev ==
    [cpu |-> [a |-> 0, x |-> 0, y |-> 0, s |-> 0, p |-> 0, pc |-> 0,
              cycle_counter |-> 0, irq_pending |-> FALSE,
              nmi_pending |-> FALSE],
     last_bus_value |-> 0, dma |-> Dma_new, even_cycle |-> FALSE,
     oam_addr |-> 0]

\* System::new.  The fields ret, mode and page_crossed hold what the last
\* call returned; they are no part of the System.
System_new(cart) ==
    Cpu_new([cpu |-> [a |-> 0, x |-> 0, y |-> 0, s |-> 0, p |-> 0, pc |-> 0,
                      cycle_counter |-> 0, irq_pending |-> FALSE,
                      nmi_pending |-> FALSE],
             ram |-> Ram_new(RAM_P2_SIZE),
             apu |-> Apu_new,
             dma |-> Dma_new,
             controller |-> Controller_new,
             ppu |-> Ppu_new,
             cart |-> cart,
             even_cycle |-> FALSE,
             last_bus_value |-> 255,
             panicked |-> FALSE,
             bus |-> << >>,
             steps |-> << >>,
             cpu_op |-> NoOp,
             ppu_clocks |-> 0,
             cycles |-> 0,
             dma_hist |-> NoDma,
             prev |-> NoPrev,
             cpu_after |-> NoPrev.cpu,
             ret |-> 0,
             mode |-> [kind |-> "Implicit"],
             page_crossed |-> FALSE])

\* the CPU as the first step of the operation left it
Keep_cpu(m) == [m EXCEPT !.cpu_after = m.cpu]

\* System::reset
System_reset(m) ==
    Keep_cpu([Cpu_reset([m EXCEPT !.bus = << >>, !.steps = << >>,
                                  !.cpu_op = NoOp,
                                  !.prev = Snapshot(m),
                                  !.cart = Cartridge_reset_mapper(
                                              Cartridge_reset_interrupt(@)),
                                  !.ppu = Ppu_reset(@),
                                  !.apu = Apu_reset(@),
                                  !.last_bus_value = 255])
                EXCEPT !.even_cycle = FALSE])

\* the DMA arm of System::clock on an even cycle: one byte
Dma_byte(m) ==
    LET Transfer(r) ==
            Step([r EXCEPT !.ppu = Ppu_dma_write(@, r.ret),
                           !.dma.addr = Wrap8(@ + 1),
                           !.dma.active = (Wrap8(m.dma.addr + 1) # 0)], "dma")
    IN Transfer(CpuBus_read(m, from_le_bytes(m.dma.addr, m.dma.page)))

\* Clock_cpu_or_dma with the CPU advancing on the odd cycles of a transfer
Clock_cpu_or_dma_mutant(m) ==
    IF m.dma.active
    THEN IF m.even_cycle THEN Dma_byte(m) ELSE Step(Cpu_clock(m), "cpu")
    ELSE Step(Cpu_clock(m), "cpu")

\* step 1 of a master cycle: the CPU, or the DMA unit when it is active
Clock_cpu_or_dma(m) ==
    IF m.dma.active
    THEN IF m.even_cycle THEN Dma_byte(m) ELSE m
    ELSE Step(Cpu_clock(m), "cpu")

\* step 1, keeping the CPU as step 1 leaves it
Clock_first(m) == Keep_cpu(Clock_cpu_or_dma(m))

\* Clock_apu that advances the APU in every other master cycle only
Clock_apu_mutant(m, frame, dmc, checks) ==
    IF m.panicked \/ ~m.even_cycle THEN Step(m, "apu")
    ELSE Step([m EXCEPT !.apu = Apu_clock(@, frame, dmc, checks).apu,
                        !.panicked = Apu_clock(m.apu, frame, dmc, checks).panic],
              "apu")

\* step 2: the APU.  A panic ends the program where it happens: the steps
\* after it do not run.
Clock_apu(m, frame, dmc, checks) ==
    IF m.panicked THEN m
    ELSE Step([m EXCEPT !.apu = Apu_clock(@, frame, dmc, checks).apu,
                        !.panicked = Apu_clock(m.apu, frame, dmc, checks).panic],
              "apu")

\* Clock_ppu with the PPU standing still while a transfer is active
Clock_ppu_mutant(m, vbl, scanline) ==
    IF m.panicked THEN m
    ELSE Step([m EXCEPT !.ppu = Ppu_clock_dot(@, vbl),
                        !.cart = IF scanline THEN Cartridge_on_scanline(@) ELSE @,
                        !.ppu_clocks = IF m.dma.active THEN @ ELSE @ + 1], "ppu")

\* step 3, three times: one PPU dot.  vbl: the dot starts vertical blank;
\* scanline: the PPU ticks the mapper's scanline counter on this dot
Clock_ppu(m, vbl, scanline) ==
    IF m.panicked THEN m
    ELSE Step([m EXCEPT !.ppu = Ppu_clock_dot(@, vbl),
                        !.cart = IF scanline THEN Cartridge_on_scanline(@) ELSE @,
                        !.ppu_clocks = @ + 1], "ppu")

\* step 4: the NMI line, the APU interrupt lines, the mapper interrupt line
Clock_sample(m) ==
    LET Nmi(n) ==
            Step([n EXCEPT !.ppu = Ppu_check_nmi(@).ppu,
                           !.cpu = IF Ppu_check_nmi(n.ppu).v
                                   THEN signal_nmi(@) ELSE @], "nmi")
        ApuIrq(n) ==
            Step([n EXCEPT !.cpu = IF Apu_irq_requested(n.apu)
                                      \/ Apu_dmc_irq_requested(n.apu)
                                   THEN signal_irq(@) ELSE @], "apu_irq")
        CartIrq(n) ==
            Step(IF Cartridge_interrupt_state(n.cart)
                 THEN [n EXCEPT !.cart = Cartridge_reset_interrupt(@),
                                !.cpu = signal_irq(@)]
                 ELSE n, "cart_irq")
    IN IF m.panicked THEN m ELSE CartIrq(ApuIrq(Nmi(m)))

\* the start of a master cycle: the records of the last one are dropped
Clock_begin(m) ==
    [m EXCEPT !.bus = << >>, !.steps = << >>, !.cpu_op = NoOp,
              !.prev = Snapshot(m)]

\* the end of a master cycle
Clock_end(m) ==
    IF m.panicked THEN m
    ELSE [m EXCEPT !.even_cycle = ~@,
                   !.cycles = @ + 1,
                   !.dma_hist = DmaHist(@, m.prev, m)]

\* Clock_cycle with the interrupt lines sampled before the CPU advances
Clock_cycle_mutant(m, ev) ==
    Clock_end(
      Clock_ppu(
        Clock_ppu(
          Clock_ppu(
            Clock_apu(Clock_first(Clock_sample(Clock_begin(m))),
                      "frame" \in ev, "dmc" \in ev, "checks" \in ev),
            "vblank" \in ev, "scanline" \in ev),
          FALSE, FALSE),
        FALSE, FALSE))

\* one iteration of the loop of System::clock
Clock_cycle(m, ev) ==
    Clock_end(
      Clock_sample(
        Clock_ppu(
          Clock_ppu(
            Clock_ppu(
              Clock_apu(Clock_first(Clock_begin(m)),
                        "frame" \in ev, "dmc" \in ev, "checks" \in ev),
              "vblank" \in ev, "scanline" \in ev),
            FALSE, FALSE),
          FALSE, FALSE)))

\* System::clock(n): n iterations of the loop.  The device events ev of the
\* environment fall into the first iteration.
RECURSIVE Clock_loop(_, _, _)
Clock_loop(m, n, ev) ==
    IF n = 0 \/ m.panicked THEN m
    ELSE Clock_loop(Clock_cycle(m, ev), n - 1, {})

System_clock(m, n, ev) ==
    Clock_loop([m EXCEPT !.cycles = 0, !.ppu_clocks = 0], n, ev)

\* ------------------------------------------------------------------------
\* Cartridges.  A PRG image is one 16K bank: the program at 0x8000, the NMI
\* handler at 0x8100, the IRQ handler at 0x8200, the vectors at 0xFFFA.
\* An illegal opcode (0x02) ends every program: Cpu::clock panics on it.
\* ------------------------------------------------------------------------

Place(org, code) == [a \in org .. org + Len(code) - 1 |-> code[a - org + 1]]

Image(main, nmi, irq) ==
    Place(0, main) @@ Place(256, nmi) @@ Place(512, irq)
    @@ Place(16378, <<0, 129, 0, 128, 0, 130>>)

\* RTI
NmiHandler == <<64>>

\* LDA $4015 (acknowledges the frame IRQ) ; RTI
IrqHandler == <<173, 21, 64, 64>>

\* LDA #$00 ; STA $4015 (acknowledges the DMC IRQ) ; RTI
DmcIrqHandler == <<169, 0, 141, 21, 64, 64>>

\* LDA #$80 ; STA $2000 (NMI on) ; LDA #$00 ; STA $4017 (frame IRQ on) ;
\* CLI ; LDA $5000 ; 0x02
IrqProgram ==
    <<169, 128, 141, 0, 32, 169, 0, 141, 23, 64, 88, 173, 0, 80, 2>>

\* LDX #$01 ; TXS ; LDA #$10 ; STA $E001 (mapper IRQ on) ; CLI ;
\* STA $4015 (DMC on) ; NOP ; 0x02
Mmc3Program == <<162, 1, 154, 169, 16, 141, 1, 224, 88, 141, 21, 64, 234, 2>>

\* LDA #$00 ; STA $4017 (frame IRQ on) ; LDA #page ; CLI ; [pad] ;
\* STA $2000 (NMI on with page 0x80) ; STA $4014 (DMA from page) ; 0x02
DmaProgram(page, pad) ==
    <<169, 0, 141, 23, 64, 169, page, 88>> \o pad
    \o <<141, 0, 32, 141, 20, 64, 2>>

\* BIT $00: three cycles, to start the DMA on the other parity
OddPad == <<36, 0>>

SystemCarts ==
    { Cartridge_new(NROM_ID, 1, Image(IrqProgram, NmiHandler, IrqHandler)),
      Cartridge_new(MMC3_ID, 1, Image(Mmc3Program, NmiHandler, DmcIrqHandler)) }

\* DMA from the ROM page 0x80 and from the register page 0x40
DmaCarts ==
    { Cartridge_new(NROM_ID, 1,
                    Image(DmaProgram(128, << >>), NmiHandler, IrqHandler)),
      Cartridge_new(NROM_ID, 1,
                    Image(DmaProgram(64, OddPad), NmiHandler, IrqHandler)) }

\* ------------------------------------------------------------------------
\* The state machine
\* ------------------------------------------------------------------------

VARIABLES
    cpu, ram, apu, dma, controller, ppu, cart, even_cycle, last_bus_value,
    panicked,       \* the process has panicked
    bus,            \* bus accesses of the last master cycle or reset, in order
    steps,          \* clock steps of the last master cycle, in order
    cpu_op,         \* what Cpu::clock did in the last master cycle
    ppu_clocks,     \* calls of Ppu::clock in the last call of System::clock
    cycles,         \* master cycles completed in the last call of System::clock
    dma_hist,       \* the DMA transfer in progress or last finished
    prev,           \* registers and latches before the last master cycle or reset
    cpu_after,      \* the CPU after step 1 of the last master cycle
    op,             \* the last operation
    events,         \* device events, resets and device operations so far
    vram, palette,  \* the System's nametable and palette memories
    host,           \* what main.rs holds besides the System: the sample
                    \* buffer, the running flag, the threads
    unit            \* the last operation on a single device: its
                    \* arguments, its result and the device before it

vars == <<cpu, ram, apu, dma, controller, ppu, cart, even_cycle,
          last_bus_value, panicked, bus, steps, cpu_op, ppu_clocks, cycles,
          dma_hist, prev, cpu_after, op, events, vram, palette, host, unit>>

\* what an operation on a single device leaves alone
held == <<cpu, ram, dma, ppu, even_cycle, last_bus_value, panicked, bus,
          steps, cpu_op, ppu_clocks, cycles, dma_hist, prev, cpu_after, host>>

\* a host that holds nothing
NoHost == [sample_buffer |-> [len |-> 0, capacity |-> 0]]

\* log: the bit 0 of each write of the MMC1 load in progress or just committed
\* n:   the number of operations of the kind of the last one so far
\* snap, bits: the button bytes buffered when the controller latch was last
\*      released, and what each port has returned since
NoUnit ==
    [addr |-> 0, data |-> 0, ret |-> 0, before |-> << >>, log |-> << >>, n |-> 0,
     snap |-> <<0, 0>>, bits |-> << << >>, << >> >>]

Machine ==
    [cpu |-> cpu, ram |-> ram, apu |-> apu, dma |-> dma,
     controller |-> controller, ppu |-> ppu, cart |-> cart,
     even_cycle |-> even_cycle, last_bus_value |-> last_bus_value,
     panicked |-> panicked, bus |-> bus, steps |-> steps,
     cpu_op |-> cpu_op, ppu_clocks |-> ppu_clocks, cycles |-> cycles,
     dma_hist |-> dma_hist, prev |-> prev, cpu_after |-> cpu_after,
     ret |-> 0, mode |-> [kind |-> "Implicit"], page_crossed |-> FALSE]

\* the System becomes the machine m
InstallSystem(m) ==
    /\ cpu' = m.cpu /\ ram' = m.ram /\ apu' = m.apu /\ dma' = m.dma
    /\ controller' = m.controller /\ ppu' = m.ppu /\ cart' = m.cart
    /\ even_cycle' = m.even_cycle /\ last_bus_value' = m.last_bus_value
    /\ panicked' = m.panicked /\ bus' = m.bus /\ steps' = m.steps
    /\ cpu_op' = m.cpu_op /\ ppu_clocks' = m.ppu_clocks /\ cycles' = m.cycles
    /\ dma_hist' = m.dma_hist /\ prev' = m.prev /\ cpu_after' = m.cpu_after

Install(m) == InstallSystem(m) /\ UNCHANGED <<vram, palette, unit, host>>

\* a System in the state of a machine m, with the host of m if it has one
StartAt(machines) ==
    LET Boot(m) ==
            /\ cpu = m.cpu /\ ram = m.ram /\ apu = m.apu /\ dma = m.dma
            /\ controller = m.controller /\ ppu = m.ppu /\ cart = m.cart
            /\ even_cycle = m.even_cycle /\ last_bus_value = m.last_bus_value
            /\ panicked = m.panicked /\ bus = m.bus /\ steps = m.steps
            /\ cpu_op = m.cpu_op /\ ppu_clocks = m.ppu_clocks
            /\ cycles = m.cycles /\ dma_hist = m.dma_hist /\ prev = m.prev
            /\ cpu_after = m.cpu_after
            /\ op = "new" /\ events = 0
            /\ vram = Vram_new /\ palette = Ram_new(PALETTE_P2_SIZE)
            /\ unit = NoUnit
            /\ host = IF "host" \in DOMAIN m THEN m.host ELSE NoHost
    IN \E m \in machines : Boot(m)

\* the state System::new leaves
Start(carts) == StartAt({System_new(c) : c \in carts})

Init == Start(SystemCarts)

\* the events the environment can raise in this master cycle that change
\* the outcome of the cycle
Enabled ==
    {"vblank"}
    \cup (IF cart.mapper.id = MMC3_ID THEN {"scanline"} ELSE {})
    \cup (IF ~apu.even_cycle /\ ~apu.inhibit_irq /\ ~apu.counter_mode
          THEN {"frame"} ELSE {})
    \cup (IF ~apu.even_cycle /\ ~apu.reader.has_ended THEN {"dmc"} ELSE {})

\* with the DMC at the end of its sample the outcome depends on the build
Builds(ev) ==
    IF "dmc" \in ev /\ apu.reader.bytes_remaining = 0 /\ ~apu.reader.loop_enabled
    THEN {ev, ev \cup {"checks"}} ELSE {ev}

\* System::clock(n)
Clock ==
    /\ ~panicked
    /\ \E n \in 1 .. MaxCall, e \in SUBSET Enabled :
          /\ events + Cardinality(e) <= MaxEvents
          /\ \E ev \in Builds(e) : Install(System_clock(Machine, n, ev))
          /\ events' = events + Cardinality(e)
    /\ op' = "clock"

\* System::reset
Reset ==
    /\ ~panicked
    /\ events < MaxEvents
    /\ Install(System_reset(Machine))
    /\ op' = "reset"
    /\ events' = events + 1

Next == Clock \/ Reset

Spec == Init /\ [][Next]_vars

\* System::clock(1), with the device events of the cycle
ClockStep ==
    /\ ~panicked
    /\ \E e \in SUBSET Enabled :
          /\ events + Cardinality(e) <= MaxEvents
          /\ \E ev \in Builds(e) : Install(System_clock(Machine, 1, ev))
          /\ events' = events + Cardinality(e)
    /\ op' = "clock"

\* the DMA programs, run cycle by cycle without a reset
InitDma == Start(DmaCarts)

SpecDma == InitDma /\ [][ClockStep]_vars

\* System::clock(n) with no device event
ClockCall ==
    /\ ~panicked
    /\ \E n \in 1 .. MaxCall : Install(System_clock(Machine, n, {}))
    /\ op' = "clock"
    /\ UNCHANGED events

\* the DMA programs, run in calls of several master cycles
InitCall == Start(DmaCarts)

SpecCall == InitCall /\ [][ClockCall]_vars


\* ------------------------------------------------------------------------
\* Master cycles counted: the programs of Spec, with unit.n the number of
\* master cycles completed since construction and unit.data the number of
\* resets.
\* ------------------------------------------------------------------------

CountedClock ==
    /\ ~panicked
    /\ unit.n < MaxCycles
    /\ \E n \in 1 .. MaxCall, e \in SUBSET Enabled :
          /\ events + Cardinality(e) <= MaxEvents
          /\ \E ev \in Builds(e) :
                /\ InstallSystem(System_clock(Machine, n, ev))
                /\ unit' = [unit EXCEPT
                              !.n = @ + System_clock(Machine, n, ev).cycles]
          /\ events' = events + Cardinality(e)
    /\ op' = "clock"
    /\ UNCHANGED <<vram, palette, host>>

CountedReset ==
    /\ ~panicked
    /\ events < MaxEvents
    /\ InstallSystem(System_reset(Machine))
    /\ unit' = [unit EXCEPT !.data = @ + 1]
    /\ op' = "reset"
    /\ events' = events + 1
    /\ UNCHANGED <<vram, palette, host>>

NextCounted == CountedClock \/ CountedReset

SpecCounted == Init /\ [][NextCounted]_vars


\* ------------------------------------------------------------------------
\* Operations counted: the programs of Spec and the DMA programs, cycle by
\* cycle and without a reset, with unit.n the number of calls of Cpu::clock the operation in
\* progress has had, unit.data its cost, and unit.snap the same two numbers
\* of the operation before it.
\* ------------------------------------------------------------------------

\* the count after a master cycle that left the machine m
Spanned(u, m) ==
    IF m.cpu_op.kind = "none" THEN u
    ELSE IF m.cpu_op.kind = "countdown" THEN [u EXCEPT !.n = @ + 1]
    ELSE [u EXCEPT !.n = 1, !.data = m.cpu_op.cost, !.snap = <<u.n, u.data>>]

SpanClock ==
    /\ ~panicked
    /\ \E e \in SUBSET Enabled :
          /\ events + Cardinality(e) <= MaxEvents
          /\ \E ev \in Builds(e) :
                /\ InstallSystem(System_clock(Machine, 1, ev))
                /\ unit' = Spanned(unit, System_clock(Machine, 1, ev))
          /\ events' = events + Cardinality(e)
    /\ op' = "clock"
    /\ UNCHANGED <<vram, palette, host>>

InitSpan == Start(SystemCarts \cup DmaCarts)

SpecSpan == InitSpan /\ [][SpanClock]_vars


\* ------------------------------------------------------------------------
\* The stack: Cpu::push, push_16, pop and pop_16 from every stack pointer.
\* unit.log holds, for each operation so far, its kind, the value pushed or
\* popped and S before it; bus the accesses of the last one.
\* ------------------------------------------------------------------------

StackBytes == {0, 90, 255}

StackWords == {258, 65280, 43981}

InitStack ==
    StartAt({[System_new(Cartridge_new(NROM_ID, 1, EmptyMem)) EXCEPT !.cpu.s = s]
               : s \in 0 .. 255})

\* the stack operation that took Machine to m
Stack(m, kind, value) ==
    /\ ~panicked
    /\ unit.n < MaxStackOps
    /\ InstallSystem(m)
    /\ unit' = [unit EXCEPT !.n = @ + 1, !.ret = m.ret,
                            !.log = Append(@, <<kind, value, cpu.s>>)]
    /\ op' = kind
    /\ UNCHANGED <<events, vram, palette, host>>

Quiet == [Machine EXCEPT !.bus = << >>]

StackPush == \E b \in StackBytes : Stack(push(Quiet, b), "push", b)

StackPush16 == \E w \in StackWords : Stack(push_16(Quiet, w), "push_16", w)

StackPop == Stack(pop(Quiet), "pop", pop(Quiet).ret)

StackPop16 == Stack(pop_16(Quiet), "pop_16", pop_16(Quiet).ret)

NextStack == StackPush \/ StackPush16 \/ StackPop \/ StackPop16

SpecStack == InitStack /\ [][NextStack]_vars


\* ------------------------------------------------------------------------
\* A mapper interrupt under a set I flag: an MMC3 program that enables the
\* mapper interrupt with I still set as the reset left it, clears I three
\* instructions later and then loops for ever, never writing to 0xE000.
\* unit.data is 1 from a master cycle in which the mapper's interrupt line
\* was sampled high with I set until an IRQ service sequence begins.
\* ------------------------------------------------------------------------

\* STA $E001 (mapper IRQ on) ; NOP ; NOP ; NOP ; CLI ; JMP to itself
MaskedProgram == <<141, 1, 224, 234, 234, 234, 88, 76, 7, 128>>

InitMasked ==
    Start({Cartridge_new(MMC3_ID, 1, Image(MaskedProgram, NmiHandler, IrqHandler))})

\* the machine as step 4 of the master cycle finds it
Clock_devices(m, ev) ==
    Clock_ppu(
      Clock_ppu(
        Clock_ppu(
          Clock_apu(Clock_first(Clock_begin(m)),
                    "frame" \in ev, "dmc" \in ev, "checks" \in ev),
          "vblank" \in ev, "scanline" \in ev),
        FALSE, FALSE),
      FALSE, FALSE)

\* the record after a master cycle with the events ev
Masked(u, m, ev) ==
    IF Clock_cycle(m, ev).cpu_op.kind = "irq" THEN [u EXCEPT !.data = 0]
    ELSE IF /\ Cartridge_interrupt_state(Clock_devices(m, ev).cart)
            /\ contains(Clock_devices(m, ev).cpu.p, FLAG_I)
         THEN [u EXCEPT !.data = 1]
         ELSE u

\* System::clock(1), with the device events of the cycle
MaskedClock ==
    /\ ~panicked
    /\ \E e \in SUBSET Enabled :
          /\ events + Cardinality(e) <= MaxEvents
          /\ \E ev \in Builds(e) :
                /\ InstallSystem(System_clock(Machine, 1, ev))
                /\ unit' = Masked(unit, Machine, ev)
          /\ events' = events + Cardinality(e)
    /\ op' = "clock"
    /\ UNCHANGED <<vram, palette, host>>

\* a master cycle completes: the end of the loop body of System::clock
MasterCycle == ~panicked /\ even_cycle' = ~even_cycle

\* the emulation thread keeps calling System::clock
SpecMasked ==
    InitMasked /\ [][MaskedClock]_vars /\ WF_even_cycle(MasterCycle)


\* ------------------------------------------------------------------------
\* Single instructions: every memory read-modify-write opcode and every
\* branch opcode of the dispatch table of Cpu::clock, in a short program
\* that sets the registers or flags, runs the instruction and stops.
\* ------------------------------------------------------------------------

Opcodes(instrs) == {o \in 0 .. 255 : InstrTable[o + 1].instr \in instrs}

RmwOpcodes ==
    {o \in Opcodes(RmwInstrs) : InstrTable[o + 1].mode # "Accumulator"}

BranchOpcodes == Opcodes(BranchInstrs)

\* the operand bytes of an instruction with operand address hi:lo
Operands(mode, lo, hi) ==
    IF mode \in {"Absolute", "AbsoluteOffsetX", "AbsoluteOffsetY"}
    THEN <<lo, hi>> ELSE <<lo>>

\* LDX #index ; LDY #index ; op lo [hi] ; op lo [hi] ; 0x02
RmwProgram(o, index, lo) ==
    LET ins == <<o>> \o Operands(InstrTable[o + 1].mode, lo, 0)
    IN <<162, index, 160, index>> \o ins \o ins \o <<2>>

\* flag preludes: none ; SEC, LDA #$00 (C, Z) ; LDA #$7F, ADC #$01 (N, V)
FlagPreludes == {<< >>, <<56, 169, 0>>, <<169, 127, 105, 1>>}

\* [prelude] JMP at ; and at the address at: op offset, with 0x02 before and
\* behind it, where the branch offsets used land
BranchImage(prelude, at, o, offset) ==
    Place(0, prelude \o <<76, LowByte(at), HighByte(at)>>)
    @@ Place(at - 32768 - 1, <<2, o, offset, 2, 2, 2>>)
    @@ Place(16378, <<0, 129, 0, 128, 0, 130>>)

\* branch addresses in the middle of a page and around a page boundary
BranchAddrs == {32896, 33020, 33021, 33022, 33024}

\* branch offsets 0, +1, +2 and -3
BranchOffsets == {0, 1, 2, 253}

InstrCarts ==
    { Cartridge_new(NROM_ID, 1, Image(RmwProgram(o, index, lo), NmiHandler, IrqHandler))
        : o \in RmwOpcodes, index \in {0, 1}, lo \in {16, 255} }
    \cup { Cartridge_new(NROM_ID, 1, BranchImage(pre, at, o, offset))
             : pre \in FlagPreludes, at \in BranchAddrs,
               o \in BranchOpcodes, offset \in BranchOffsets }

InitInstr == Start(InstrCarts)

\* System::clock(1) with no device event
ClockQuiet ==
    /\ ~panicked
    /\ Install(System_clock(Machine, 1, {}))
    /\ op' = "clock"
    /\ UNCHANGED events

SpecInstr == InitInstr /\ [][ClockQuiet]_vars

\* ------------------------------------------------------------------------
\* The cost of instructions: every opcode of the dispatch table of
\* Cpu::clock that is not a conditional branch, in the program
\* LDX #index ; LDY #index ; op $FF [$00] ; op $FF [$00] ; 0x02, so that
\* the indexed modes cross a page with index 1 and do not with index 0.
\* ------------------------------------------------------------------------

CostOpcodes ==
    {o \in 0 .. 255 : InstrTable[o + 1].instr \notin BranchInstrs \cup {"Illegal"}}

CostCarts ==
    { Cartridge_new(NROM_ID, 1, Image(RmwProgram(o, index, 255), NmiHandler, IrqHandler))
        : o \in CostOpcodes, index \in {0, 1} }

InitCost == Start(CostCarts)

\* System::clock(1) with no device event; events counts the master cycles
CostClock ==
    /\ ~panicked /\ events < MaxCostClocks
    /\ Install(System_clock(Machine, 1, {}))
    /\ op' = "clock"
    /\ events' = events + 1

SpecCost == InitCost /\ [][CostClock]_vars


\* ------------------------------------------------------------------------
\* The PPU bus: writes through PpuBus::write, on cartridges of every mirror
\* mode.  For AxROM a CPU write to the cartridge selects the screen.
\* ------------------------------------------------------------------------

\* the borrows System::clock hands to the PPU
Bus == [cart |-> cart, vram |-> vram, palette |-> palette]

\* horizontal mirroring with character RAM, vertical mirroring with
\* character ROM, and AxROM's single screens
BusCarts ==
    { load_cartridge(NROM_ID, 1, 0, FALSE, EmptyMem),
      load_cartridge(NROM_ID, 1, 1, TRUE, EmptyMem),
      load_cartridge(AXROM_ID, 2, 0, FALSE, EmptyMem) }

\* a pattern address, nametable addresses, palette addresses and an address
\* above 0x3FFF
PpuAddrs ==
    {0}
    \cup {8192, 9216, 10240, 11264, 12289, 16127}
    \cup {16128, 16144, 16132, 16148, 16160}
    \cup {32528}

PpuBytes == {1, 255}

InitPpuBus == Start(BusCarts)

\* PpuBus::write
PpuWrite ==
    /\ events < MaxWrites
    /\ \E addr \in PpuAddrs, data \in PpuBytes :
          /\ cart' = PpuBus_write(Bus, addr, data).cart
          /\ vram' = PpuBus_write(Bus, addr, data).vram
          /\ palette' = PpuBus_write(Bus, addr, data).palette
          /\ unit' = [NoUnit EXCEPT !.addr = addr, !.data = data, !.before = Bus]
    /\ op' = "ppu_write"
    /\ events' = events + 1
    /\ UNCHANGED <<held, apu, controller>>

\* Cartridge::cpu_write of a byte that selects a screen
ScreenWrite ==
    /\ events < MaxWrites
    /\ \E data \in {0, 16} :
          /\ cart' = Cartridge_cpu_write(cart, 32768, data)
          /\ unit' = [NoUnit EXCEPT !.addr = 32768, !.data = data, !.before = Bus]
    /\ op' = "cpu_write"
    /\ events' = events + 1
    /\ UNCHANGED <<held, apu, controller, vram, palette>>

NextPpuBus == PpuWrite \/ ScreenWrite

SpecPpuBus == InitPpuBus /\ [][NextPpuBus]_vars


\* ------------------------------------------------------------------------
\* MMC1: CPU writes to the four register windows of the cartridge
\* ------------------------------------------------------------------------

Mmc1Carts == { load_cartridge(MMC1_ID, 4, 2, FALSE, EmptyMem) }

\* one address in each of 0x8000.., 0xA000.., 0xC000.. and 0xE000..
Mmc1Addrs == {32768, 40961, 49152, 65535}

\* bit 0 clear and set, with bit 7 clear, and a byte with bit 7 set
Mmc1Bytes == {2, 1, 128}

InitMmc1 == Start(Mmc1Carts)

\* Cartridge::cpu_write on the MMC1 cartridge
Mmc1Write ==
    /\ events < MaxLoadWrites
    /\ \E addr \in Mmc1Addrs, data \in Mmc1Bytes :
          /\ cart' = Cartridge_cpu_write(cart, addr, data)
          /\ unit' = [NoUnit EXCEPT
                        !.addr = addr, !.data = data, !.before = cart,
                        !.log = IF BitAnd(data, 128) # 0 THEN << >>
                                ELSE Append(IF Len(unit.log) = 5 THEN << >>
                                            ELSE unit.log, data % 2)]
    /\ op' = "mmc1_write"
    /\ events' = events + 1
    /\ UNCHANGED <<held, apu, controller, vram, palette>>

SpecMmc1 == InitMmc1 /\ [][Mmc1Write]_vars


\* ------------------------------------------------------------------------
\* MMC3: scanline ticks of the interrupt counter, on a cartridge whose
\* counter was set up by CPU writes: the reload value to 0xC000, a write to
\* 0xC001 (counter := 0) and, to enable the interrupt, a write to 0xE001.
\* ------------------------------------------------------------------------

Mmc3Armed(reload, enable) ==
    LET c0 == load_cartridge(MMC3_ID, 2, 1, FALSE, EmptyMem)
        c1 == Cartridge_cpu_write(c0, 49152, reload)
        c2 == Cartridge_cpu_write(c1, 49153, 0)
    IN IF enable THEN Cartridge_cpu_write(c2, 57345, 0) ELSE c2

ScanlineCarts ==
    { Mmc3Armed(reload, TRUE) : reload \in 0 .. 255 }
    \cup { Mmc3Armed(reload, FALSE) : reload \in {0, 2} }

InitScanline == Start(ScanlineCarts)

\* Cartridge::on_scanline; unit.ret is the number of the first tick that
\* raised the interrupt
ScanlineTick ==
    /\ unit.n < MaxTicks
    /\ cart' = Cartridge_on_scanline(cart)
    /\ unit' = [unit EXCEPT
                  !.before = cart,
                  !.n = @ + 1,
                  !.ret = IF @ = 0 /\ Cartridge_interrupt_state(Cartridge_on_scanline(cart))
                          THEN unit.n + 1 ELSE @]
    /\ op' = "scanline"
    /\ UNCHANGED <<held, apu, controller, vram, palette, events>>

\* the acknowledgement System::clock gives a raised mapper interrupt
ScanlineAck ==
    /\ Cartridge_interrupt_state(cart)
    /\ cart' = Cartridge_reset_interrupt(cart)
    /\ unit' = [unit EXCEPT !.before = cart]
    /\ op' = "reset_interrupt"
    /\ UNCHANGED <<held, apu, controller, vram, palette, events>>

NextScanline == ScanlineTick \/ ScanlineAck

SpecScanline == InitScanline /\ [][NextScanline]_vars


\* ------------------------------------------------------------------------
\* Every mapper: CPU writes to the cartridge and Cartridge::reset_mapper
\* ------------------------------------------------------------------------

\* <<prg_banks, chr_banks>> of the images: 32 KiB of program ROM with 8 KiB of
\* character ROM, 64 KiB with character RAM, and 256 KiB with 32 KiB
CartSizes == {<<2, 1>>, <<4, 0>>, <<16, 4>>}

MapperCarts ==
    { load_cartridge(id, size[1], size[2], FALSE, EmptyMem)
        : id \in MapperIds, size \in CartSizes }

\* <<address, byte>> of the writes that matter to a mapper: bank numbers,
\* mirror modes, the bits of an MMC1 load, the MMC3 register select, and
\* a byte for the PRG-RAM
MapperWrites(id) ==
    CASE id = MMC1_ID ->
            {<<32768, 0>>, <<32768, 1>>, <<57344, 1>>, <<40960, 128>>, <<24576, 7>>}
      [] id = UXROM_ID -> {<<32768, 1>>, <<65535, 15>>}
      [] id = CNROM_ID -> {<<32768, 1>>, <<32768, 3>>}
      [] id = MMC3_ID ->
            {<<32768, 6>>, <<32768, 130>>, <<32769, 1>>, <<32769, 63>>,
             <<40960, 0>>, <<24576, 7>>}
      [] id = AXROM_ID -> {<<32768, 17>>, <<32768, 7>>}
      [] id = GXROM_ID -> {<<32768, 51>>, <<32768, 16>>}
      [] OTHER -> {<<32768, 255>>}

InitMappers == Start(MapperCarts)

\* Cartridge::cpu_write
MapperWrite ==
    /\ events < MaxMapperOps
    /\ \E w \in MapperWrites(cart.mapper.id) :
          /\ cart' = Cartridge_cpu_write(cart, w[1], w[2])
          /\ unit' = [NoUnit EXCEPT !.addr = w[1], !.data = w[2], !.before = cart]
    /\ op' = "cpu_write"
    /\ events' = events + 1
    /\ UNCHANGED <<held, apu, controller, vram, palette>>

\* Cartridge::reset_mapper
MapperReset ==
    /\ events < MaxMapperOps
    /\ cart' = Cartridge_reset_mapper(cart)
    /\ unit' = [NoUnit EXCEPT !.before = cart]
    /\ op' = "reset_mapper"
    /\ events' = events + 1
    /\ UNCHANGED <<held, apu, controller, vram, palette>>

NextMappers == MapperWrite \/ MapperReset

SpecMappers == InitMappers /\ [][NextMappers]_vars


\* ------------------------------------------------------------------------
\* MMC3: register writes, scanline ticks, the acknowledgement of the
\* interrupt by System::clock, and resets, on a cartridge of 32 KiB.
\* unit.snap[1] is 1 from a write to an even address in 0xE000-0xFFFF until
\* the next write to an odd one; unit.log is << >> with no interrupt pending
\* and else the operation that raised it and interrupt_enabled before it.
\* ------------------------------------------------------------------------

\* bank select (R6, R6 with the PRG mode bit, R7), bank data, the mirror
\* mode, the reload value and the reload, and the interrupt disable and
\* enable at both ends of their range
Mmc3Writes ==
    {<<32768, 6>>, <<32768, 70>>, <<32768, 7>>, <<32769, 1>>, <<32769, 3>>,
     <<40960, 0>>, <<49152, 1>>, <<49153, 0>>,
     <<57344, 0>>, <<57345, 0>>, <<65534, 0>>, <<65535, 0>>}

InitMmc3 == Start({Cartridge_new(MMC3_ID, 2, EmptyMem)})

\* who raised the interrupt pending in c2, after the operation kind on c
Raiser(c, c2, kind) ==
    IF ~Cartridge_interrupt_state(c2) THEN << >>
    ELSE IF Cartridge_interrupt_state(c) THEN unit.log
    ELSE <<kind, c.mapper.interrupt_enabled>>

\* the operation kind took the cartridge to c2
Mmc3Op(c2, kind, addr, data) ==
    /\ events < MaxMmc3Ops
    /\ cart' = c2
    /\ unit' = [unit EXCEPT
                  !.addr = addr, !.data = data, !.before = cart,
                  !.log = Raiser(cart, c2, kind),
                  !.snap[1] = IF kind = "cpu_write" /\ addr >= 57344
                              THEN 1 - (addr % 2) ELSE @]
    /\ op' = kind
    /\ events' = events + 1
    /\ UNCHANGED <<held, apu, controller, vram, palette>>

\* Cartridge::cpu_write
Mmc3Write ==
    \E w \in Mmc3Writes :
       Mmc3Op(Cartridge_cpu_write(cart, w[1], w[2]), "cpu_write", w[1], w[2])

\* Cartridge::on_scanline
Mmc3Tick == Mmc3Op(Cartridge_on_scanline(cart), "on_scanline", 0, 0)

\* System::clock: a pending mapper interrupt is taken and reset
Mmc3Ack ==
    /\ Cartridge_interrupt_state(cart)
    /\ Mmc3Op(Cartridge_reset_interrupt(cart), "reset_interrupt", 0, 0)

\* System::reset: reset_interrupt, then reset_mapper
Mmc3Reset ==
    Mmc3Op(Cartridge_reset_mapper(Cartridge_reset_interrupt(cart)),
           "reset", 0, 0)

NextMmc3 == Mmc3Write \/ Mmc3Tick \/ Mmc3Ack \/ Mmc3Reset

SpecMmc3 == InitMmc3 /\ [][NextMmc3]_vars

\* ------------------------------------------------------------------------
\* The MMC3 CHR windows: bank-select writes that choose R0, R1 or R2 in
\* either CHR inversion setting, bank-data writes of even and odd values,
\* and PPU reads at the start of each 1-KiB window.  unit.addr and unit.data
\* are the last access, unit.ret the offset the mapper gave the last read.
\* ------------------------------------------------------------------------

ChrWrites ==
    {<<32768, 0>>, <<32768, 1>>, <<32768, 2>>, <<32768, 128>>, <<32768, 129>>,
     <<32769, 2>>, <<32769, 3>>, <<32769, 4>>}

ChrReads == {0, 1024, 2048, 3072, 4096, 5120, 6144, 7168}

\* Mmc3::cpu_write
ChrWrite ==
    /\ events < MaxChrWrites
    /\ \E w \in ChrWrites :
          /\ cart' = Cartridge_cpu_write(cart, w[1], w[2])
          /\ unit' = [unit EXCEPT !.addr = w[1], !.data = w[2],
                                  !.before = cart]
    /\ op' = "cpu_write"
    /\ events' = events + 1
    /\ UNCHANGED <<held, apu, controller, vram, palette>>

\* Mmc3::ppu_read
ChrRead ==
    /\ \E addr \in ChrReads :
          unit' = [unit EXCEPT !.addr = addr, !.data = 0, !.before = cart,
                               !.ret = Mapper_ppu_read(cart.mapper, addr).v]
    /\ op' = "ppu_read"
    /\ UNCHANGED <<held, apu, controller, vram, palette, cart, events>>

NextChr == ChrWrite \/ ChrRead

SpecChr == InitMmc3 /\ [][NextChr]_vars


\* ------------------------------------------------------------------------
\* The DMC sample reader: calls of SampleReader::clock (one per firing of
\* the DMC timer) and CPU writes to the flags register and to 0x4015, on an
\* APU whose DMC registers were programmed.  unit.log holds the addresses
\* fetched in the playback in progress or just ended; unit.snap the number
\* of bytes the last playback that ran to its end fetched and its length,
\* <<0, 0>> before one ends; unit.n the byte of the last write; unit.data
\* is 1 once bytes_remaining was
\* decremented at 0.
\* ------------------------------------------------------------------------

\* neither flag, loop, IRQ, and both
DmcFlags == {0, 64, 128, 192}

\* lengths of 1 and of 17 bytes
DmcLengths == {0, 1}

\* samples at 0xC000 and at 0xFFC0
DmcAddresses == {0, 255}

InitDmc ==
    StartAt({ [System_new(Cartridge_new(NROM_ID, 1, EmptyMem)) EXCEPT
                 !.apu = Apu_write_stream(
                            Apu_write_stream(
                              Apu_write_stream(Apu_new_stream, 16, f), 18, a),
                            19, l)]
                : f \in DmcFlags, a \in DmcAddresses, l \in DmcLengths })

\* the playback record after a CPU write that took the reader from r to r2
Played(u, r, r2) ==
    IF r.bytes_remaining = 0 /\ r2.bytes_remaining # 0
    THEN [u EXCEPT !.log = << >>]
    ELSE u

\* Apu::write at 0x4010
DmcFlagsWrite ==
    /\ ~panicked
    /\ events < MaxDmcWrites
    /\ \E data \in DmcFlags :
          /\ apu' = Apu_write_stream(apu, 16, data)
          /\ unit' = [unit EXCEPT !.addr = 16, !.n = data, !.before = apu]
    /\ op' = "apu_write"
    /\ events' = events + 1
    /\ UNCHANGED <<held, cart, controller, vram, palette>>

\* Apu::write_control
DmcControl ==
    /\ ~panicked
    /\ events < MaxDmcWrites
    /\ \E data \in {0, 16} :
          /\ apu' = Apu_write_control_stream(apu, data)
          /\ unit' = [Played(unit, apu.reader,
                             Apu_write_control_stream(apu, data).reader)
                        EXCEPT !.addr = 21, !.n = data, !.before = apu]
    /\ op' = "write_control"
    /\ events' = events + 1
    /\ UNCHANGED <<held, cart, controller, vram, palette>>

\* the playback record after a clock with result c of the reader r
Fetched(u, r, c) ==
    LET ends == r.bits_remaining = 0 /\ ~r.has_ended /\ r.bytes_remaining = 0
        loops == ends /\ r.loop_enabled
    IN [u EXCEPT !.log = IF loops THEN c.fetch ELSE @ \o c.fetch,
                 !.snap = IF loops THEN <<Len(u.log), r.length>>
                          ELSE IF ends THEN <<Len(u.log \o c.fetch), r.length>>
                          ELSE @,
                 !.ret = Len(c.fetch),
                 !.data = IF c.underflow THEN 1 ELSE @,
                 !.before = apu]

\* DmcChannel::clock with the timer firing: SampleReader::clock.  Where the
\* decrement underflows the outcome depends on the build.
DmcClock ==
    /\ ~panicked
    /\ \E checks \in BOOLEAN :
          /\ apu' = [apu EXCEPT
                       !.reader = SampleReader_clock_stream(@, checks).r]
          /\ panicked' = SampleReader_clock_stream(apu.reader, checks).panic
          /\ unit' = Fetched(unit, apu.reader,
                             SampleReader_clock_stream(apu.reader, checks))
    /\ op' = "dmc_clock"
    /\ UNCHANGED <<cpu, ram, dma, ppu, even_cycle, last_bus_value, bus, steps,
                   cpu_op, ppu_clocks, cycles, dma_hist, prev, cpu_after, host,
                   cart, controller, vram, palette, events>>

NextDmc == DmcFlagsWrite \/ DmcControl \/ DmcClock

SpecDmc == InitDmc /\ [][NextDmc]_vars


\* ------------------------------------------------------------------------
\* The controller: button updates from the front end, writes to 0x4016 and
\* reads of the two ports
\* ------------------------------------------------------------------------

\* <<controller_a, controller_b>>: A and Start; B, Select and the directions
ButtonStates == {<<144, 111>>, <<111, 144>>}

InitPad == Start({Cartridge_new(NROM_ID, 1, EmptyMem)})

\* System::update_controller_state
PadUpdate ==
    /\ events < MaxPadOps
    /\ \E b \in ButtonStates :
          controller' = Controller_update_state(controller, b[1], b[2])
    /\ unit' = [unit EXCEPT !.before = controller]
    /\ op' = "update_state"
    /\ events' = events + 1
    /\ UNCHANGED <<held, apu, cart, vram, palette>>

\* Controller::write; a write that releases the latch starts a new record
\* of what the ports return
PadWrite ==
    /\ events < MaxPadOps
    /\ \E data \in {0, 1} :
          /\ controller' = Controller_write(controller, data)
          /\ unit' = IF controller.latch /\ data = 0
                     THEN [unit EXCEPT !.before = controller, !.data = data,
                                       !.n = @ + 1,
                                       !.snap = controller.buffer,
                                       !.bits = << << >>, << >> >>]
                     ELSE [unit EXCEPT !.before = controller, !.data = data]
    /\ op' = "write"
    /\ events' = events + 1
    /\ UNCHANGED <<held, apu, cart, vram, palette>>

\* Controller::read
PadRead ==
    /\ events < MaxPadOps
    /\ \E port \in {PortA, PortB} :
          /\ controller' = Controller_read(controller, port).c
          /\ unit' = [unit EXCEPT
                        !.before = controller, !.addr = port,
                        !.ret = Controller_read(controller, port).v,
                        !.bits[port + 1] =
                            IF controller.latch THEN @
                            ELSE Append(@, Controller_read(controller, port).v)]
    /\ op' = "read"
    /\ events' = events + 1
    /\ UNCHANGED <<held, apu, cart, vram, palette>>

NextPad == PadUpdate \/ PadWrite \/ PadRead

SpecPad == InitPad /\ [][NextPad]_vars


\* ------------------------------------------------------------------------
\* The APU frame sequencer: calls of Apu::clock, one per master cycle, on
\* an APU whose frame counter register was written once: 4-step mode with
\* and without the IRQ inhibit flag, and 5-step mode.  The cycle count of
\* the sequencer is part of the APU state here.
\* ------------------------------------------------------------------------

FrameModes == {0, 64, 128}

Units == {"pulse_1", "pulse_2", "triangle", "noise"}

InitFrame ==
    StartAt({ [System_new(Cartridge_new(NROM_ID, 1, EmptyMem)) EXCEPT
                 !.apu = Apu_write_frame_counter(@ @@ [cycles |-> 0], data)]
                : data \in FrameModes })

\* no call of Apu::clock since the last end-of-sequence event
PeriodStart == unit.n = 0 /\ unit.data > 0

\* the last operation was a call of Apu::clock that ended a period
PeriodEnded == op = "apu_clock" /\ PeriodStart

\* Apu::clock.  unit.n counts the calls since the last end-of-sequence event,
\* unit.data the end-of-sequence events, unit.ret is the length of the last
\* period, and unit.log holds, for the period in progress or just ended, the
\* calls that were a sequencer event or clocked a unit with a quarter or
\* half flag: the number of the call, the half flag, and the units that got
\* each flag.
FrameClock ==
    /\ events < MaxApuClocks
    /\ apu' = [Apu_clock(apu, Apu_sequence(apu).full, FALSE, FALSE).apu
                 EXCEPT !.cycles = Apu_sequence(apu).cycles]
    /\ LET s == Apu_sequence(apu)
           log == IF PeriodStart THEN << >> ELSE unit.log
           entry == [at |-> unit.n + 1, half |-> s.half,
                     quarter_to |-> {u \in Units : s[u][1]},
                     half_to |-> {u \in Units : s[u][2]}]
       IN unit' = [unit EXCEPT
                     !.before = apu,
                     !.n = IF s.full THEN 0 ELSE @ + 1,
                     !.data = IF s.full THEN @ + 1 ELSE @,
                     !.ret = IF s.full THEN unit.n + 1 ELSE @,
                     !.log = IF (s.quarter /\ s.even) \/ entry.quarter_to # {}
                                \/ entry.half_to # {}
                             THEN Append(log, entry) ELSE log]
    /\ op' = "apu_clock"
    /\ events' = events + 1
    /\ UNCHANGED <<held, controller, cart, vram, palette>>

\* a read of 0x4015, which clears the frame IRQ flag
FrameAck ==
    /\ Apu_irq_requested(apu)
    /\ apu' = Apu_read_status(apu).apu
    /\ unit' = [unit EXCEPT !.before = apu]
    /\ op' = "read_status"
    /\ UNCHANGED <<held, controller, cart, vram, palette, events>>

NextFrame == FrameClock \/ FrameAck

SpecFrame == InitFrame /\ [][NextFrame]_vars

\* ------------------------------------------------------------------------
\* The frame sequencer under mode switches: writes to 0x4017 between calls
\* of Apu::clock.  The behaviours start where a sequencer that has run in
\* one mode since its register was written can be: at the start of its
\* period, before its half-frame step, and before the end of the 4-step
\* and of the 5-step period.  unit.n counts the calls since the last
\* end-of-sequence event, unit.snap[1] the writes.
\* ------------------------------------------------------------------------

\* the cycle count at which the sequence of the selected mode ends
SequencePeriod(a) == IF a.counter_mode THEN 18641 ELSE 14915

SeqPoints == {0, 7456, 14913, 18639}

InitSwitch ==
    StartAt({ [System_new(Cartridge_new(NROM_ID, 1, EmptyMem)) EXCEPT
                 !.apu = Apu_write_frame_counter(@ @@ [cycles |-> c], data)]
                : data \in FrameModes,
                  c \in {n \in SeqPoints : n < 14915} })
    \/ StartAt({ [System_new(Cartridge_new(NROM_ID, 1, EmptyMem)) EXCEPT
                    !.apu = Apu_write_frame_counter(@ @@ [cycles |-> c], 128)]
                   : c \in SeqPoints })

\* Apu::write_frame_counter
SwitchWrite ==
    /\ unit.snap[1] < MaxSwitches
    /\ \E data \in FrameModes :
          /\ apu' = Apu_write_frame_counter(apu, data)
          /\ unit' = [unit EXCEPT !.before = apu, !.data = data,
                                  !.snap[1] = @ + 1]
    /\ op' = "write_frame_counter"
    /\ UNCHANGED <<held, controller, cart, vram, palette, events>>

\* Apu::clock
SwitchClock ==
    /\ events < MaxSeqClocks
    /\ apu' = [Apu_clock(apu, Apu_sequence(apu).full, FALSE, FALSE).apu
                 EXCEPT !.cycles = Apu_sequence(apu).cycles]
    /\ unit' = [unit EXCEPT !.before = apu,
                            !.n = IF Apu_sequence(apu).full THEN 0 ELSE @ + 1]
    /\ op' = "apu_clock"
    /\ events' = events + 1
    /\ UNCHANGED <<held, controller, cart, vram, palette>>

NextSwitch == SwitchWrite \/ SwitchClock

SpecSwitch == InitSwitch /\ [][NextSwitch]_vars

\* ------------------------------------------------------------------------
\* The sweep units of the two pulse channels: writes of the sweep register
\* and the two timer registers of either channel, and calls of Sweep::clock
\* on both (the pulse channels are clocked together by Apu::clock).
\* apu holds the two sweep units; unit.snap[c] is 1 when the last call
\* took the target period of channel c below 0.
\* ------------------------------------------------------------------------

\* <<register, byte>>: sweep (negate with shift 0; enabled, negate, shift 1;
\* enabled, shift 1), timer low, timer high
SweepWrites ==
    {<<1, 8>>, <<1, 137>>, <<1, 129>>, <<2, 8>>, <<2, 255>>, <<3, 7>>}

InitSweep ==
    StartAt({ [System_new(Cartridge_new(NROM_ID, 1, EmptyMem)) EXCEPT
                 !.apu = Apu_new_sweeps] })

\* Apu::write for 0x4001-0x4003 and 0x4005-0x4007
SweepWrite ==
    /\ events < MaxSweepOps /\ ~panicked
    /\ \E c \in {1, 2}, w \in SweepWrites :
          /\ apu' = [apu EXCEPT ![c] = Sweep_write(@, w[1], w[2])]
          /\ unit' = [unit EXCEPT !.before = apu, !.data = w[2],
                                  !.addr = (c - 1) * 4 + w[1]]
    /\ op' = "apu_write"
    /\ events' = events + 1
    /\ UNCHANGED <<cpu, ram, dma, ppu, even_cycle, last_bus_value, bus, steps,
                   cpu_op, ppu_clocks, cycles, dma_hist, prev, cpu_after, host,
                   panicked, controller, cart, vram, palette>>

\* PulseChannel::clock of both channels in an even call of Apu::clock
SweepClock ==
    /\ events < MaxSweepOps /\ ~panicked
    /\ \E half \in BOOLEAN, checks \in BOOLEAN :
          LET c1 == Sweep_clock(apu[1], half, checks)
              c2 == Sweep_clock(apu[2], half, checks)
          IN /\ apu' = IF c1.panic THEN apu ELSE <<c1.s, c2.s>>
             /\ panicked' = (c1.panic \/ c2.panic)
             /\ unit' = [unit EXCEPT
                           !.before = apu,
                           !.snap = <<BoolToInt(c1.underflow),
                                      BoolToInt(~c1.panic /\ c2.underflow)>>]
    /\ op' = "sweep_clock"
    /\ events' = events + 1
    /\ UNCHANGED <<cpu, ram, dma, ppu, even_cycle, last_bus_value, bus, steps,
                   cpu_op, ppu_clocks, cycles, dma_hist, prev, cpu_after, host,
                   controller, cart, vram, palette>>

NextSweep == SweepWrite \/ SweepClock

SpecSweep == InitSweep /\ [][NextSweep]_vars


\* ------------------------------------------------------------------------
\* The length counter of pulse channel 1: writes of 0x4000 (halt flag) and
\* 0x4003 (length load), writes of 0x4015, reads of 0x4015 and calls of
\* Apu::clock with every combination of sequencer flags.
\* ------------------------------------------------------------------------

\* <<register, byte>>: halt clear, halt set, load index 1, load index 8
LengthWrites == {<<0, 0>>, <<0, 32>>, <<3, 8>>, <<3, 64>>}

\* bytes written to 0x4015: pulse 1 disabled, pulse 1 enabled
LengthControls == {0, 1}

\* a register write arrives after this many half-frame clocks of the
\* counter it was loaded with
WritePoints == {0, 1, 160}

\* the sequencer flags of a call of Apu::clock: <<quarter, half, full>>
SequencerFlags ==
    {<<FALSE, FALSE, FALSE>>, <<TRUE, FALSE, FALSE>>,
     <<TRUE, TRUE, FALSE>>, <<TRUE, TRUE, TRUE>>}

InitLength ==
    StartAt({ [System_new(Cartridge_new(NROM_ID, 1, EmptyMem)) EXCEPT
                 !.apu = Apu_new_channels] })

\* unit.data is the byte of the last write of 0x4003, unit.n the half-frame
\* clocks pulse channel 1 got since, and unit.ret is 1 while the halt flag
\* has been clear and 0x4015 unwritten since that write
LengthWrite ==
    /\ events < MaxLengthWrites
    /\ unit.n \in WritePoints
    /\ \E w \in LengthWrites :
          /\ apu' = Apu_write_channels(apu, w[1], w[2])
          /\ unit' = [unit EXCEPT
                        !.before = apu, !.addr = w[1],
                        !.data = IF w[1] = 3 THEN w[2] ELSE @,
                        !.n = IF w[1] = 3 THEN 0 ELSE @,
                        !.ret = IF w[1] = 3
                                THEN IF apu.pulse_channel_1.length_counter.halt
                                     THEN 0 ELSE 1
                                ELSE 0]
    /\ op' = "apu_write"
    /\ events' = events + 1
    /\ UNCHANGED <<held, controller, cart, vram, palette>>

LengthControl ==
    /\ events < MaxLengthWrites
    /\ unit.n \in WritePoints
    /\ \E d \in LengthControls :
          /\ apu' = Apu_write_control_channels(apu, d)
          /\ unit' = [unit EXCEPT !.before = apu, !.ret = 0]
    /\ op' = "write_control"
    /\ events' = events + 1
    /\ UNCHANGED <<held, controller, cart, vram, palette>>

LengthClock ==
    /\ unit.n < MaxHalfClocks
    /\ \E f \in SequencerFlags :
          /\ apu' = Apu_clock_channels(apu, f[1], f[2], f[3], FALSE, FALSE).apu
          /\ unit' = [unit EXCEPT
                        !.before = apu,
                        !.n = IF f[2] /\ ~apu.even_cycle THEN @ + 1 ELSE @,
                        !.log = <<f[2] /\ ~apu.even_cycle>>]
    /\ op' = "apu_clock"
    /\ UNCHANGED <<held, controller, cart, vram, palette, events>>

\* unit.snap[1] is the byte read
LengthStatus ==
    /\ apu' = Apu_read_status_channels(apu).apu
    /\ unit' = [unit EXCEPT !.before = apu,
                            !.snap = <<Apu_read_status_channels(apu).v, 0>>]
    /\ op' = "read_status"
    /\ UNCHANGED <<held, controller, cart, vram, palette, events>>

NextLength == LengthWrite \/ LengthControl \/ LengthClock \/ LengthStatus

SpecLength == InitLength /\ [][NextLength]_vars


\* ------------------------------------------------------------------------
\* The APU's status and control register: writes of the channel registers,
\* of 0x4015 and reads of 0x4015, between calls of Apu::clock in which the
\* frame sequencer and the DMC timer fire or do not.  The frame counter
\* register was written with 0x00 (frame IRQ on) or left as constructed.
\* ------------------------------------------------------------------------

\* <<register, byte>>: length loads of pulse 1 and the triangle (index 3,
\* two clocks), the DMC flags with the IRQ off, a DMC length of 17 bytes
RegWrites == {<<3, 24>>, <<11, 24>>, <<16, 0>>, <<19, 1>>}

\* bytes written to 0x4015
RegControls == {0, 31, 16, 10}

\* <<quarter, half, full>> of a call of Apu::clock
RegFlags == {<<FALSE, FALSE, FALSE>>, <<TRUE, TRUE, TRUE>>}

InitRegs ==
    StartAt({ [System_new(Cartridge_new(NROM_ID, 1, EmptyMem)) EXCEPT
                 !.apu = a]
              : a \in {Apu_new_channels,
                       Apu_write_frame_counter(Apu_new_channels, 0)} })

RegWrite ==
    /\ events < MaxApuOps /\ ~panicked
    /\ \E w \in RegWrites :
          /\ apu' = Apu_write_channels(apu, w[1], w[2])
          /\ unit' = [unit EXCEPT !.before = apu, !.addr = w[1], !.data = w[2]]
    /\ op' = "apu_write"
    /\ events' = events + 1
    /\ UNCHANGED <<held, controller, cart, vram, palette>>

RegControl ==
    /\ events < MaxApuOps /\ ~panicked
    /\ \E d \in RegControls :
          /\ apu' = Apu_write_control_channels(apu, d)
          /\ unit' = [unit EXCEPT !.before = apu, !.data = d]
    /\ op' = "write_control"
    /\ events' = events + 1
    /\ UNCHANGED <<held, controller, cart, vram, palette>>

\* Apu::clock; an overflow of the reader's byte count panics in a build
\* with overflow checks
RegClock ==
    /\ events < MaxApuOps /\ ~panicked
    /\ \E f \in RegFlags, dmc \in BOOLEAN, checks \in BOOLEAN :
          /\ apu' = Apu_clock_channels(apu, f[1], f[2], f[3], dmc, checks).apu
          /\ panicked' = Apu_clock_channels(apu, f[1], f[2], f[3], dmc, checks).panic
          /\ unit' = [unit EXCEPT !.before = apu]
    /\ op' = "apu_clock"
    /\ events' = events + 1
    /\ UNCHANGED <<cpu, ram, dma, ppu, even_cycle, last_bus_value, bus, steps,
                   cpu_op, ppu_clocks, cycles, dma_hist, prev, cpu_after,
                   controller, cart, vram, palette, host>>

\* a read of 0x4015.  unit.snap[1] is the byte read and unit.snap[2] the byte
\* of the read before when that was the operation before, and -1 otherwise
RegStatus ==
    /\ ~panicked
    /\ apu' = Apu_read_status_channels(apu).apu
    /\ unit' = [unit EXCEPT
                  !.before = apu,
                  !.snap = <<Apu_read_status_channels(apu).v,
                             IF op = "read_status" THEN unit.snap[1] ELSE -1>>]
    /\ op' = "read_status"
    /\ UNCHANGED <<held, controller, cart, vram, palette, events>>

NextRegs == RegWrite \/ RegControl \/ RegClock \/ RegStatus

SpecRegs == InitRegs /\ [][NextRegs]_vars


\* ------------------------------------------------------------------------
\* Sample output: calls of Apu::clock that push samples into a ring buffer
\* of a small capacity, and the audio thread that pops them.
\* ------------------------------------------------------------------------

InitSamples ==
    StartAt({ [System_new(Cartridge_new(NROM_ID, 1, EmptyMem)) EXCEPT
                 !.apu = Apu_new_samples]
                @@ [host |-> [sample_buffer |-> SampleBuffer_new(n)]]
              : n \in 1 .. MaxBuffer })

\* Apu::clock.  unit.ret is 1 when the call produced a sample while the
\* buffer was full, and unit.snap the length of the buffer before and after
SampleClock ==
    /\ events < MaxSampleClocks /\ ~panicked
    /\ \E f \in RegFlags :
          LET c == Apu_clock_samples(apu, host.sample_buffer,
                                     f[1], f[2], f[3], FALSE, FALSE)
          IN /\ apu' = c.apu
             /\ host' = [host EXCEPT !.sample_buffer = c.buf]
             /\ panicked' = c.panic
             /\ unit' = [unit EXCEPT
                           !.before = apu,
                           !.log = f,
                           !.ret = IF ~apu.even_cycle
                                      /\ apu.t + SECONDS_PER_APU_CLOCK >= 0
                                      /\ host.sample_buffer.len
                                           = host.sample_buffer.capacity
                                   THEN 1 ELSE 0,
                           !.snap = <<host.sample_buffer.len, c.buf.len>>]
    /\ op' = "apu_clock"
    /\ events' = events + 1
    /\ UNCHANGED <<cpu, ram, dma, ppu, even_cycle, last_bus_value, bus, steps,
                   cpu_op, ppu_clocks, cycles, dma_hist, prev, cpu_after,
                   controller, cart, vram, palette>>

\* the audio thread takes a sample
SamplePop ==
    /\ ~panicked
    /\ host.sample_buffer.len > 0
    /\ host' = [host EXCEPT !.sample_buffer = SampleBufferSource_next(@)]
    /\ unit' = [unit EXCEPT !.ret = 0]
    /\ op' = "next"
    /\ UNCHANGED <<cpu, ram, dma, ppu, even_cycle, last_bus_value, bus, steps,
                   cpu_op, ppu_clocks, cycles, dma_hist, prev, cpu_after,
                   controller, cart, vram, palette, apu, panicked, events>>

NextSamples == SampleClock \/ SamplePop

SpecSamples == InitSamples /\ [][NextSamples]_vars


\* ------------------------------------------------------------------------
\* The front-end, the emulation thread and the audio thread.
\* ------------------------------------------------------------------------

\* every variable but host
system == <<cpu, ram, apu, dma, controller, ppu, cart, even_cycle,
            last_bus_value, panicked, bus, steps, cpu_op, ppu_clocks, cycles,
            dma_hist, prev, cpu_after, events, vram, palette, unit>>

InitHost ==
    StartAt({ System_new(Cartridge_new(NROM_ID, 1, EmptyMem))
                @@ [host |-> App_new] })

Host(h, name) == host' = h /\ op' = name /\ UNCHANGED system

Resumed ==
    /\ host.front = "idle" /\ ~host.audio /\ ~host.handle
    /\ Host(App_resumed(host), "resumed")

Suspended ==
    /\ host.front = "idle" /\ host.audio /\ host.handle
    /\ Host(App_suspended(host), "suspended")

SuspendedJoin ==
    /\ host.front = "suspend_join" /\ host.thread = "done"
    /\ Host(App_suspended_join(host), "suspended_join")

SuspendedRelease ==
    /\ host.front = "suspend_release"
    /\ Host(App_suspended_release(host), "suspended_release")

CloseRequested ==
    /\ host.front = "idle" /\ host.window
    /\ Host(App_close(host), "close")

CloseJoin ==
    /\ host.front = "close_join" /\ host.thread = "done"
    /\ Host(App_close_join(host), "close_join")

Drop ==
    /\ host.front = "exited"
    /\ Host(App_drop(host), "drop")

\* RedrawRequested and the reset key: the handler asks for the mutex
LockRequested ==
    /\ host.front = "idle" /\ host.window
    /\ \E at \in {"redraw_lock", "reset_lock"} :
          Host([host EXCEPT !.front = at], at)

Locked ==
    /\ host.front \in {"redraw_lock", "reset_lock"} /\ host.lock = "free"
    /\ Host(App_lock(host, IF host.front = "redraw_lock"
                           THEN "redraw" ELSE "reset"), "lock")

Unlocked ==
    /\ host.front \in {"redraw", "reset"}
    /\ Host(App_unlock(host), "unlock")

EmuCheck ==
    /\ host.thread = "check"
    /\ Host(run_emu_check(host), "emu_check")

EmuLock ==
    /\ host.thread = "lock" /\ host.lock = "free"
    /\ Host(run_emu_lock(host), "emu_lock")

EmuClock ==
    /\ host.thread = "batch" /\ host.sample_buffer.len < HostFill
    /\ Host(run_emu_clock(host), "emu_clock")

EmuUnlock ==
    /\ host.thread = "batch" /\ host.sample_buffer.len >= HostFill
    /\ Host(run_emu_unlock(host), "emu_unlock")

EmuSleep ==
    /\ host.thread = "sleep"
    /\ Host(run_emu_sleep(host), "emu_sleep")

AudioNext ==
    /\ host.audio /\ host.sample_buffer.len > 0
    /\ host.thread = "batch" => host.popped + 1 < HostSamplesPerCall
    /\ Host(Audio_next(host), "audio_next")

\* the steps of the emulation thread
Emu == EmuCheck \/ EmuLock \/ EmuClock \/ EmuUnlock \/ EmuSleep

\* the steps of the front-end
Front ==
    \/ Resumed \/ Suspended \/ SuspendedJoin \/ SuspendedRelease
    \/ CloseRequested \/ CloseJoin \/ Drop
    \/ LockRequested \/ Locked \/ Unlocked

NextHost == Front \/ Emu \/ AudioNext

\* the emulation thread is scheduled, and a join whose thread has ended
\* returns
SpecHost ==
    /\ InitHost /\ [][NextHost]_vars
    /\ WF_vars(Emu) /\ WF_vars(SuspendedJoin) /\ WF_vars(CloseJoin)


\* ------------------------------------------------------------------------
\* Properties
\* ------------------------------------------------------------------------

Reads(log) == SelectSeq(log, LAMBDA e : e[1] = "r")
Writes(log) == SelectSeq(log, LAMBDA e : e[1] = "w")

\* the registers, PC and cycle counter of a CPU
Registers(c) == <<c.a, c.x, c.y, c.s, c.p, c.pc, c.cycle_counter>>

\* the last operation was a completed master cycle of System::clock
Clocked == op = "clock" /\ ~panicked

\* C1: from the write to 0x4014 until dma.active clears, System::clock does
\* not advance the CPU: registers, PC and cycle counter stay as they are.
\* On each master cycle with the even-cycle flag set one byte is read
\* through the bus at page:offset, the offsets running 0x00, 0x01, ..., 0xFF,
\* and handed to OAM at the OAM address; on the other cycles nothing is
\* read.  After 256 bytes, and not before, active clears.
C1_DmaFreezesCpu ==
    /\ (Clocked /\ prev.dma.active) =>
          /\ cpu_op.kind = "none"
          /\ cpu_after = prev.cpu
          /\ Registers(cpu) = Registers(prev.cpu)
          /\ dma.page = prev.dma.page
          /\ IF prev.even_cycle
             THEN /\ Len(bus) = 1
                  /\ bus[1][1] = "r"
                  /\ bus[1][2] = prev.dma.page * 256 + prev.dma.addr
                  /\ MemRead(ppu.oam, prev.oam_addr) = bus[1][3]
                  /\ ppu.oam_addr = (prev.oam_addr + 1) % 256
                  /\ dma.addr = (prev.dma.addr + 1) % 256
                  /\ prev.dma.addr = dma_hist.count - 1
                  /\ dma.active = (dma_hist.count < 256)
             ELSE /\ bus = << >>
                  /\ dma = prev.dma
                  /\ ppu.oam_addr = prev.oam_addr
    /\ dma.active => dma_hist.started /\ ~dma_hist.done
                     /\ dma_hist.count < 256 /\ dma.addr = dma_hist.count
    /\ dma_hist.done => ~dma.active /\ dma_hist.count = 256

\* a transfer from page 0x80 has finished with its first byte (0xA9) at the
\* OAM address it started at, and an NMI latched while the CPU was held
C1_Witness ==
    /\ dma_hist.done /\ dma_hist.count = 256
    /\ prev.dma.active /\ prev.dma.page = 128
    /\ MemRead(ppu.oam, dma_hist.oam_addr) = 169
    /\ cpu.nmi_pending

\* C2: a transfer costs 513 master cycles when it begins on an even master
\* cycle and 514 when it begins on an odd one: the CPU is held for that
\* many master cycles before it advances again.
C2_DmaCost ==
    dma_hist.done => dma_hist.halted = IF dma_hist.start_even THEN 513 ELSE 514

\* C3: the steps of a master cycle come in one order: the CPU, or at most
\* one DMA byte and only on an even cycle; the APU; the PPU three times;
\* the NMI line, the APU interrupt lines, the mapper interrupt line.  An
\* interrupt serviced in a master cycle was latched before that cycle, and
\* step 1 of a cycle sets no latch.
C3_StepOrder ==
    Clocked =>
       /\ steps = (IF ~prev.dma.active THEN <<"cpu">>
                   ELSE IF prev.even_cycle THEN <<"dma">> ELSE << >>)
                  \o <<"apu", "ppu", "ppu", "ppu", "nmi", "apu_irq", "cart_irq">>
       /\ cpu_op.kind = "nmi" => prev.cpu.nmi_pending
       /\ cpu_op.kind = "irq" => prev.cpu.irq_pending
       /\ cpu_after.nmi_pending => prev.cpu.nmi_pending
       /\ cpu_after.irq_pending => prev.cpu.irq_pending

\* an IRQ latched while a transfer held the CPU is serviced after it
C3_Witness ==
    /\ Clocked /\ cpu_op.kind = "irq"
    /\ dma_hist.done
    /\ steps[1] = "cpu"

\* C4: after the n master cycles of a call of System::clock the PPU has
\* been clocked 3n times, DMA cycles included.
C4_PpuThreeTimes == ppu_clocks = 3 * cycles

\* a call of two master cycles, both inside a transfer
C4_Witness ==
    /\ Clocked /\ cycles = 2 /\ ppu_clocks = 6
    /\ prev.dma.active /\ dma_hist.halted >= 2

\* C5: the CPU never begins an IRQ service sequence at an instruction
\* boundary at which the I flag is set.
C5_IrqOnlyWithIClear ==
    cpu_op.kind = "irq" => ~contains(cpu_op.p, FLAG_I)

\* C6: servicing an NMI or an IRQ at an instruction boundary writes PC
\* high, PC low and P (bit 5 set, bit 4 clear) to three descending stack
\* addresses of page 1, sets I, clears the latch serviced, loads PC from
\* 0xFFFA (NMI) or 0xFFFE (IRQ) and takes 8 (NMI) or 7 (IRQ) cycles; a
\* latched NMI is serviced at the next boundary whatever the I flag is.
C6_InterruptSequence ==
    /\ cpu_op.kind \in {"nmi", "irq"} =>
          LET nmi == cpu_op.kind = "nmi"
              vec == IF nmi THEN 65530 ELSE 65534
              cost == IF nmi THEN 8 ELSE 7
              s0 == cpu_op.s
              pc0 == cpu_op.pc
          IN /\ Len(bus) = 5
             /\ bus[1] = <<"w", 256 + s0, (pc0 \div 256)>>
             /\ bus[2] = <<"w", 256 + ((s0 + 255) % 256), (pc0 % 256)>>
             /\ bus[3][1] = "w"
             /\ bus[3][2] = 256 + ((s0 + 254) % 256)
             /\ BitAnd(bus[3][3], 32) = 32
             /\ BitAnd(bus[3][3], 16) = 0
             /\ BitAnd(bus[3][3], 207) = cpu_op.p
             /\ bus[4] = <<"r", vec, (cpu_after.pc % 256)>>
             /\ bus[5] = <<"r", vec + 1, (cpu_after.pc \div 256)>>
             /\ cpu_after.s = (s0 + 253) % 256
             /\ cpu_after.p = BitOr(cpu_op.p, FLAG_I)
             /\ <<cpu_after.a, cpu_after.x, cpu_after.y>>
                  = <<prev.cpu.a, prev.cpu.x, prev.cpu.y>>
             /\ IF nmi
                THEN ~cpu_after.nmi_pending
                     /\ cpu_after.irq_pending = prev.cpu.irq_pending
                ELSE ~cpu_after.irq_pending /\ ~prev.cpu.nmi_pending
             /\ cpu_op.cost = cost
             /\ cpu_after.cycle_counter = cost - 1
    /\ (op = "clock" /\ ~prev.dma.active /\ prev.cpu.cycle_counter = 0
          /\ prev.cpu.nmi_pending) => cpu_op.kind = "nmi"

\* an NMI is serviced inside the IRQ handler, where I is set
C6_Witness ==
    /\ cpu_op.kind = "nmi"
    /\ contains(cpu_op.p, FLAG_I)
    /\ cpu_op.pc >= 33280
    /\ cpu_after.pc = 33024

\* C7: a read-modify-write instruction on a memory operand makes exactly
\* two bus writes, both to the operand address: the old value, then the
\* new one.
C7_RmwTwoWrites ==
    (cpu_op.kind = "instr" /\ cpu_op.opcode \in RmwOpcodes) =>
        LET w == Writes(bus)
            r == Reads(bus)
        IN /\ Len(w) = 2
           /\ w[1][2] = w[2][2]
           /\ w[1][3] = r[Len(r)][3]

\* C8: a branch costs 2 cycles when it is not taken, 3 when it is taken to
\* the page of the next instruction and 4 when it is taken across a page
\* boundary.
C8_BranchCost ==
    (cpu_op.kind = "instr" /\ cpu_op.opcode \in BranchOpcodes) =>
        LET next == (cpu_op.pc + 2) % 65536
            offset == bus[2][3]
            target == (next + 65536
                       + (IF offset >= 128 THEN offset - 256 ELSE offset)) % 65536
            taken == BranchCondition(InstrTable[cpu_op.opcode + 1].instr, cpu_op.p)
        IN cpu_op.cost = IF ~taken THEN 2
                         ELSE IF target \div 256 = next \div 256 THEN 3 ELSE 4

\* the reset vector as the cartridge holds it
ResetVectorValue ==
    Cartridge_cpu_read(cart, 65532).v + 256 * Cartridge_cpu_read(cart, 65533).v

\* C9: a reset takes S down by 3 modulo 256 without a bus write, sets I,
\* loads PC from 0xFFFC/0xFFFD and leaves A, X, Y and the other flags; after
\* System::new and after System::reset PC is the vector's value.
C9_Reset ==
    /\ op = "reset" =>
          /\ cpu.s = (prev.cpu.s + 256 - 3) % 256
          /\ Writes(bus) = << >>
          /\ contains(cpu.p, FLAG_I)
          /\ cpu.p = BitOr(prev.cpu.p, FLAG_I)
          /\ <<cpu.a, cpu.x, cpu.y>> = <<prev.cpu.a, prev.cpu.x, prev.cpu.y>>
          /\ bus = << <<"r", 65532, (cpu.pc % 256)>>, <<"r", 65533, (cpu.pc \div 256)>> >>
    /\ op \in {"new", "reset"} => cpu.pc = ResetVectorValue

\* a reset with S = 1, A = 0x10 and I clear
C9_Witness ==
    /\ op = "reset"
    /\ prev.cpu.s = 1 /\ cpu.s = 254
    /\ cpu.a = 16
    /\ ~contains(prev.cpu.p, FLAG_I)
    /\ cpu.pc = 32768

\* no device answers a read of this address
Unanswered(addr) ==
    \/ addr \in 16384 .. 16404
    \/ addr \in 16408 .. 16415
    \/ addr >= 16416 /\ ~Cartridge_cpu_read(cart, addr).some

\* the latch before the first bus access of the last operation
LatchBefore == IF op = "clock" THEN prev.last_bus_value ELSE 255

\* addresses no device answers, and addresses of every device
OpenBusSample == {16384, 16404, 16408, 16415, 20480}
BusSample == OpenBusSample \cup {16, 8194, 16405, 16406, 16407, 32768}

\* C10: every bus read and write leaves the byte read or written in the
\* latch; a read no device answers returns the latch as the access before
\* it left it, and changes nothing else.
C10_OpenBus ==
    /\ bus # << >> => last_bus_value = bus[Len(bus)][3]
    /\ \A i \in 1 .. Len(bus) :
          (bus[i][1] = "r" /\ Unanswered(bus[i][2])) =>
              bus[i][3] = IF i = 1 THEN LatchBefore ELSE bus[i - 1][3]
    /\ \A a \in OpenBusSample :
          /\ Unanswered(a)
          /\ CpuBus_read(Machine, a).ret = last_bus_value
          /\ CpuBus_read(Machine, a)
               = [Machine EXCEPT !.bus = Append(@, <<"r", a, last_bus_value>>),
                                 !.ret = last_bus_value]
    /\ \A a \in BusSample :
          /\ CpuBus_read(Machine, a).last_bus_value = CpuBus_read(Machine, a).ret
          /\ \A d \in {0, 165} : CpuBus_write(Machine, a, d).last_bus_value = d

\* the transfer reads 0x4014, which no device answers, and gets the 0x40
\* the write to 0x4014 left in the latch
C10_Witness ==
    /\ Clocked /\ prev.dma.active
    /\ bus = << <<"r", 16404, 64>> >>
    /\ last_bus_value = 64

\* the byte PpuBus::read returns at an address, on a bus b
PpuByte(b, addr) == PpuBus_read(b, addr).v

\* PpuBus::write has just written a byte at an address of the range lo..hi
PpuWritten(lo, hi) ==
    /\ op = "ppu_write"
    /\ BitAnd(unit.addr, 16383) >= lo
    /\ BitAnd(unit.addr, 16383) <= hi

\* the palette entry of an address: the offset in the 32-byte palette, with
\* the offsets 0x10, 0x14, 0x18 and 0x1C folded onto 0x00, 0x04, 0x08, 0x0C
PaletteEntry(addr) ==
    LET o == BitAnd(addr, 31)
    IN IF o % 4 = 0 THEN o % 16 ELSE o

PaletteProbes == 16128 .. 16383

\* C11: a byte written to a palette address is read back at every address
\* of 0x3F00..0x3FFF with the same palette entry: the palette repeats every
\* 32 bytes, and 0x3F10, 0x3F14, 0x3F18, 0x3F1C are the same entries as
\* 0x3F00, 0x3F04, 0x3F08, 0x3F0C, in both directions.
C11_PaletteMirror ==
    PpuWritten(PALETTE_START, PALETTE_END) =>
        \A x \in PaletteProbes :
            PaletteEntry(x) = PaletteEntry(unit.addr) => PpuByte(Bus, x) = unit.data

\* two nametable addresses are aliases under a mirror mode: they agree in
\* bits 0-9 and, under Horizontal, in bit 11; under Vertical, in bit 10
NametableAlias(mirror, a, x) ==
    /\ a % 1024 = x % 1024
    /\ mirror = "Horizontal" => (a \div 2048) % 2 = (x \div 2048) % 2
    /\ mirror = "Vertical" => (a \div 1024) % 2 = (x \div 1024) % 2

\* three addresses of each of the eight 1-KiB blocks of 0x2000..0x3EFF
NametableProbes ==
    {a \in {8192 + t * 1024 + o : t \in 0 .. 7, o \in {0, 1, 1023}} : a <= VRAM_END}

\* C12: after a write through a nametable address of 0x2000..0x3EFF, every
\* alias of the address under the cartridge's mirror mode reads the byte
\* written, OneScreenLow keeps everything in table 0 and OneScreenHigh in
\* table 1, and every address that is not an alias, in the nametables, the
\* palette or the pattern tables, reads what it read before.
C12_NametableMirror ==
    PpuWritten(VRAM_START, VRAM_END) =>
        /\ \A x \in NametableProbes :
              PpuByte(Bus, x) =
                 IF NametableAlias(Cartridge_mirror(cart), BitAnd(unit.addr, 16383), x)
                 THEN unit.data ELSE PpuByte(unit.before, x)
        /\ \A x \in PpuAddrs \ NametableProbes :
              BitAnd(x, 16383) \notin VRAM_START .. VRAM_END =>
                 PpuByte(Bus, x) = PpuByte(unit.before, x)
        /\ Cartridge_mirror(cart) = "OneScreenLow" => vram.tables[2] = Ram_new(TABLE_P2_SIZE)
        /\ Cartridge_mirror(cart) = "OneScreenHigh" =>
              vram.tables[2] = Ram_write(unit.before.vram.tables[2], unit.addr, unit.data)

\* under Vertical mirroring 0x2000 holds 1; then 255 is written to 0x2C00 and
\* read back at 0x2400 and 0x3400, while 0x2000 and 0x2800 still read 1
C12_Witness ==
    /\ PpuWritten(VRAM_START, VRAM_END)
    /\ Cartridge_mirror(cart) = "Vertical"
    /\ unit.addr = 11264 /\ unit.data = 255
    /\ PpuByte(Bus, 9216) = 255 /\ PpuByte(Bus, 13312) = 255
    /\ PpuByte(Bus, 8192) = 1 /\ PpuByte(Bus, 10240) = 1

\* the value whose bit k-1 is the k-th bit of a log
RECURSIVE LoadValue(_)
LoadValue(log) ==
    IF log = << >> THEN 0 ELSE log[1] + 2 * LoadValue(Tail(log))

\* the MMC1 registers a load into target register t can change
Mmc1Target(t) ==
    CASE t = 0 -> {"control", "mirror"}
      [] t = 1 -> {"chr_bank_4_lo", "chr_bank_8"}
      [] t = 2 -> {"chr_bank_4_hi"}
      [] t = 3 -> {"prg_bank_32", "prg_bank_16_lo", "prg_bank_16_hi"}

\* two mapper states agree in every field but those of a set
SameBut(mp, b, fields) ==
    \A f \in (DOMAIN mp) \ fields : mp[f] = b[f]

\* C13: a write with bit 7 clear at 0x8000 or above shifts bit 0 of the
\* byte into the load register; writes one to four of a load change the
\* load register and its count and nothing else; the fifth write commits:
\* it changes only the register that bits 13-14 of its address name, the
\* control register takes the value whose bit k-1 is bit 0 of the k-th
\* write, and load register and count return to zero.  A write with bit 7
\* set clears load register and count, sets bits 2 and 3 of the control
\* register and changes nothing else.
C13_Mmc1Load ==
    op = "mmc1_write" =>
        LET mp == cart.mapper
            b == unit.before.mapper
            n == Len(unit.log)
        IN IF BitAnd(unit.data, 128) # 0
           THEN /\ mp.load = 0 /\ mp.load_count = 0
                /\ mp.control = BitOr(b.control, 12)
                /\ BitAnd(Shr(mp.control, 2), 3) = 3
                /\ SameBut(mp, b, {"load", "load_count", "control"})
           ELSE IF n < 5
           THEN /\ mp.load_count = n
                /\ mp.load = LoadValue(unit.log) * 2 ^ (5 - n)
                /\ SameBut(mp, b, {"load", "load_count"})
           ELSE /\ mp.load = 0 /\ mp.load_count = 0
                /\ b.load_count = 4
                /\ SameBut(mp, b, {"load", "load_count"}
                                  \cup Mmc1Target((unit.addr \div 8192) % 4))
                /\ (unit.addr \div 8192) % 4 = 0 =>
                      mp.control = LoadValue(unit.log)
                /\ (unit.addr \div 8192) % 4 = 1 /\ BitAnd(b.control, 16) # 0 =>
                      mp.chr_bank_4_lo = LoadValue(unit.log)
                /\ (unit.addr \div 8192) % 4 = 2 /\ BitAnd(b.control, 16) # 0 =>
                      mp.chr_bank_4_hi = LoadValue(unit.log)

\* the writes 1, 0, 1, 0, 0 (bit 0), the last one at 0x8000, have committed
\* 0b00101 to the control register
C13_Witness ==
    /\ op = "mmc1_write"
    /\ unit.log = <<1, 0, 1, 0, 0>>
    /\ unit.addr = 32768
    /\ cart.mapper.control = 5
    /\ cart.mapper.load_count = 0

\* C14: after a write with bit 7 set the mapper is in PRG mode 3 and every
\* CPU read at 0xC000-0xFFFF translates to the last 16-KiB bank of program
\* ROM: offset (prg_banks - 1) * 0x4000 + (addr & 0x3FFF).
C14_Mmc1ResetLastBank ==
    (op = "mmc1_write" /\ BitAnd(unit.data, 128) # 0) =>
        /\ BitAnd(Shr(cart.mapper.control, 2), 3) = 3
        /\ \A a \in {49152, 57635, 65535} :
              Mapper_cpu_read(cart.mapper, a) =
                 [kind |-> "Address",
                  v |-> (cart.mapper.prg_banks - 1) * 16384 + (a % 16384)]

\* C15: a scanline tick reloads the counter from the reload value when the
\* counter is zero and decrements it otherwise, and raises the mapper
\* interrupt exactly when the counter is zero after that and interrupts are
\* enabled; it changes nothing else.  From a zero counter with reload value
\* N and interrupts enabled the interrupt is first raised by tick N + 1;
\* with interrupts disabled it is never raised.
C15_ScanlineCounter ==
    LET mp == cart.mapper
        N == mp.interrupt_step
    IN /\ op = "scanline" =>
            LET b == unit.before.mapper
            IN /\ mp.interrupt_counter =
                     IF b.interrupt_counter = 0 THEN b.interrupt_step
                     ELSE b.interrupt_counter - 1
               /\ mp.interrupt_active =
                     (b.interrupt_active
                        \/ (mp.interrupt_counter = 0 /\ mp.interrupt_enabled))
               /\ SameBut(mp, b, {"interrupt_counter", "interrupt_active"})
       /\ unit.ret = IF mp.interrupt_enabled /\ unit.n >= N + 1 THEN N + 1 ELSE 0

\* with reload value 255 the interrupt has been raised by tick 256, the
\* first to raise it
C15_Witness ==
    /\ op = "scanline"
    /\ cart.mapper.interrupt_step = 255
    /\ unit.n = 256 /\ unit.ret = 256
    /\ cart.mapper.interrupt_active
    /\ ~unit.before.mapper.interrupt_active

\* CPU addresses of each 8-KiB window of 0x8000..0xFFFF and PPU addresses of
\* each 1-KiB window of 0x0000..0x1FFF: the first and the last of each
CpuProbes == {32768 + w * 8192 + o : w \in 0 .. 3, o \in {0, 8191}}
ChrProbes == {w * 1024 + o : w \in 0 .. 7, o \in {0, 1023}}

\* C16: whatever was written to the cartridge, every CPU read in
\* 0x8000..0xFFFF translates to an offset below the size of program ROM
\* and every PPU read in 0x0000..0x1FFF to an offset below the size of the
\* character array: no cartridge read indexes out of bounds.
C16_ReadsInBounds ==
    /\ \A a \in CpuProbes :
          /\ Mapper_cpu_read(cart.mapper, a).kind = "Address"
          /\ Mapper_cpu_read(cart.mapper, a).v < cart.prg_size
          /\ ~Cartridge_cpu_read(cart, a).panic
    /\ \A a \in ChrProbes :
          /\ ~cart.chr_is_ram => Mapper_ppu_read(cart.mapper, a).v < cart.chr_size
          /\ ~Cartridge_ppu_read(cart, a).panic

\* the cartridge as load_cartridge built it
Constructed(c) ==
    [c EXCEPT !.mapper = get_mapper_from_id(c.mapper.id, c.prg_size \div PRG_BANK_SIZE)]

\* Cartridge::reset_mapper has left the bank translation of construction
\* and the memories of before
ResetRestoresBanks ==
    op = "reset_mapper" =>
        /\ \A a \in CpuProbes :
              Mapper_cpu_read(cart.mapper, a) = Mapper_cpu_read(Constructed(cart).mapper, a)
        /\ \A a \in ChrProbes :
              Mapper_ppu_read(cart.mapper, a) = Mapper_ppu_read(Constructed(cart).mapper, a)
        /\ cart.mapper.id \in {MMC1_ID, MMC3_ID} =>
              cart.mapper.prg_ram = unit.before.mapper.prg_ram
        /\ cart.prg_rom = unit.before.prg_rom
        /\ cart.chr_rom = unit.before.chr_rom

\* C17: after Cartridge::reset_mapper every CPU address and every PPU
\* address translates as it did right after construction: the program ROM
\* and pattern addresses by the banks, the nametable addresses by the
\* mirror mode; PRG-RAM, program ROM and character memory are as before.
C17_ResetRestores ==
    /\ ResetRestoresBanks
    /\ op = "reset_mapper" =>
          \A a \in NametableProbes :
              table_index(Cartridge_mirror(cart), a - VRAM_START)
                 = table_index(Cartridge_mirror(Constructed(cart)), a - VRAM_START)

\* bit number i of a byte (bit 7 is button A, bit 0 is Right)
BitOf(byte, i) == (byte \div 2 ^ i) % 2

\* C18: after a write to 0x4016 with bit 0 set followed by one with bit 0
\* clear, the k-th read of a port (k = 1..8) returns bit 8 - k of the button
\* byte buffered for that port at the second write: A, B, Select, Start,
\* Up, Down, Left, Right, whatever is buffered afterwards, and each read
\* shifts the port's register left by one.  While the latch is set a read
\* returns the A bit of the byte buffered at the time of the read.
C18_ControllerProtocol ==
    /\ (unit.n > 0 /\ ~controller.latch) =>
          \A p \in {1, 2} :
             /\ \A k \in 1 .. Len(unit.bits[p]) :
                   k <= 8 => unit.bits[p][k] = BitOf(unit.snap[p], 8 - k)
             /\ controller.controller[p]
                   = (unit.snap[p] * 2 ^ Len(unit.bits[p])) % 256
    /\ (op = "read" /\ unit.before.latch) =>
          unit.ret = BitOf(unit.before.buffer[unit.addr + 1], 7)

\* with 0x90 buffered at the strobe and 0x6F buffered after it, eight reads
\* of port A have returned 1, 0, 0, 1, 0, 0, 0, 0
C18_Witness ==
    /\ op = "read" /\ unit.addr = PortA
    /\ unit.n = 1 /\ unit.snap = <<144, 111>>
    /\ controller.buffer = <<111, 144>>
    /\ unit.bits[1] = <<1, 0, 0, 1, 0, 0, 0, 0>>

\* C19: a period of the 4-step sequencer has exactly four quarter-frame
\* events, the 2nd and the 4th of them being the two half-frame events,
\* and the 4th sets the frame IRQ flag if and only if the inhibit flag is
\* clear; no other call of Apu::clock changes the flag, and in 5-step mode
\* the flag is never set.  Each event clocks the two pulse units, the
\* triangle unit and the noise unit once with the quarter flag, and a
\* half-frame event once with the half flag; no other call hands a unit a
\* flag.
C19_FrameEvents ==
    op = "apu_clock" =>
        /\ \A k \in 1 .. Len(unit.log) :
              /\ unit.log[k].quarter_to = Units
              /\ unit.log[k].half_to = IF unit.log[k].half THEN Units ELSE {}
        /\ Len(unit.log) <= 4
        /\ (PeriodEnded /\ ~apu.counter_mode) =>
              /\ Len(unit.log) = 4
              /\ \A k \in 1 .. 4 : unit.log[k].half = (k \in {2, 4})
              /\ unit.log[4].at = unit.ret
        /\ ~apu.counter_mode =>
              apu.irq = (unit.before.irq \/ (PeriodEnded /\ ~apu.inhibit_irq))
        /\ apu.counter_mode => ~apu.irq

\* the second 4-step period has ended and has set the frame IRQ flag again
\* after a read of 0x4015 had cleared it
C19_Witness ==
    /\ PeriodEnded /\ unit.data = 2
    /\ ~apu.counter_mode /\ ~apu.inhibit_irq
    /\ apu.irq /\ ~unit.before.irq
    /\ Len(unit.log) = 4

\* C20 as amended: between two successive end-of-sequence events Apu::clock
\* is called, once per master cycle, 29830 times in 4-step mode and 37282
\* times in 5-step mode: 14915 and 18641 counts of a counter that advances
\* on every second call.
C20_FramePeriod ==
    unit.data >= 2 =>
        unit.ret = IF apu.counter_mode THEN 37282 ELSE 29830

\* the second period of each mode has ended
C20_Witness ==
    /\ PeriodEnded /\ unit.data = 2
    /\ apu.counter_mode /\ unit.ret = 37282

\* C20 as stated: the period between two successive end-of-sequence events
\* is 14915 master cycles in 4-step mode and 18641 in 5-step mode.
C20_FramePeriodStated ==
    unit.data >= 2 =>
        unit.ret = IF apu.counter_mode THEN 18641 ELSE 14915

\* the length counter of pulse channel 1
Length1(a) == a.pulse_channel_1.length_counter

\* l less n, and 0 when n exceeds l
Countdown(l, n) == IF n >= l THEN 0 ELSE l - n

\* C21 as amended: a write of 0x4003 loads the length counter of pulse
\* channel 1 with the entry of the load table that bits 3-7 of the byte
\* index: 254 for 0x08, 160 for 0x40.  A half-frame clock decrements a
\* non-zero counter by one when halt is clear, leaves a zero counter at
\* zero, and leaves any counter unchanged when halt is set; no other call
\* of Apu::clock changes it.  So with halt clear the counter is 0 after
\* exactly as many half-frame clocks as were loaded, and non-zero one clock
\* earlier, and bit 0 of a status read is set exactly while it is non-zero.
C21_LengthCounter ==
    /\ (op = "apu_write" /\ unit.addr = 3) =>
          /\ Length1(apu).counter = LOAD_TABLE[(unit.data \div 8) + 1]
          /\ unit.data = 8 => Length1(apu).counter = 254
          /\ unit.data = 64 => Length1(apu).counter = 160
    /\ op = "apu_clock" =>
          Length1(apu) =
              IF unit.log[1] /\ ~Length1(unit.before).halt
                 /\ Length1(unit.before).counter > 0
              THEN [Length1(unit.before) EXCEPT !.counter = @ - 1]
              ELSE Length1(unit.before)
    /\ unit.ret = 1 =>
          Length1(apu).counter = Countdown(LOAD_TABLE[(unit.data \div 8) + 1], unit.n)
    /\ op = "read_status" =>
          /\ (unit.snap[1] % 2 = 1) = (Length1(unit.before).counter > 0)
          /\ Length1(apu) = Length1(unit.before)

\* 0x08 was written to 0x4003 with halt clear, and the 254th half-frame
\* clock since has taken the counter from 1 to 0
C21_Witness ==
    /\ op = "apu_clock" /\ unit.ret = 1 /\ unit.data = 8 /\ unit.n = 254
    /\ Length1(unit.before).counter = 1
    /\ Length1(apu).counter = 0

\* C21 as stated: a write of 0x08 to 0x4003 loads 160, and with halt clear
\* the counter is 0 after exactly 160 half-frame clocks.
C21_LengthCounterStated ==
    (unit.ret = 1 /\ unit.data = 8) =>
        Length1(apu).counter = Countdown(160, unit.n)

\* 2^k when p holds and 0 otherwise
Bit(k, p) == IF p THEN 2 ^ k ELSE 0

\* the channels that have a length counter
LengthChannels ==
    <<"pulse_channel_1", "pulse_channel_2", "triangle_channel", "noise_channel">>

\* C22: a read of the APU status returns bit 0-3 = the length counter of
\* pulse 1, pulse 2, triangle, noise is non-zero, bit 4 = the DMC reader
\* has not ended, bit 6 = frame IRQ, bit 7 = DMC IRQ, and bit 5 clear; it
\* changes nothing but the frame IRQ flag, which it clears; a read that
\* follows a read directly returns the same byte with bit 6 clear.
C22_StatusRead ==
    op = "read_status" =>
        /\ unit.snap[1] =
              Bit(0, unit.before.pulse_channel_1.length_counter.counter > 0)
              + Bit(1, unit.before.pulse_channel_2.length_counter.counter > 0)
              + Bit(2, unit.before.triangle_channel.length_counter.counter > 0)
              + Bit(3, unit.before.noise_channel.length_counter.counter > 0)
              + Bit(4, ~unit.before.reader.has_ended)
              + Bit(6, unit.before.irq)
              + Bit(7, unit.before.reader.irq)
        /\ apu = [unit.before EXCEPT !.irq = FALSE]
        /\ unit.snap[2] # -1 =>
              unit.snap[1] = unit.snap[2] - Bit(6, unit.snap[2] \div 64 % 2 = 1)

\* a read returned 0xC1: frame IRQ, DMC IRQ, pulse 1 running; it cleared
\* the frame IRQ and left the DMC IRQ set
C22_Witness ==
    /\ op = "read_status" /\ unit.snap[1] = 193
    /\ unit.before.irq /\ ~apu.irq /\ apu.reader.irq

\* C23: a write of 0x4015 zeroes the length counter of every channel whose
\* bit is clear and leaves the counter of a channel whose bit is set; with
\* bit 4 set it restarts the DMC reader (bytes_remaining = length, not
\* ended) when bytes_remaining is 0 and leaves a reader with bytes remaining
\* as it is; with bit 4 clear it halts the reader (no bytes remaining,
\* ended); either way the DMC IRQ flag is clear afterwards and the frame
\* IRQ flag, the halt flags and the frame counter are unchanged.
C23_ControlWrite ==
    op = "write_control" =>
        /\ \A k \in 1 .. 4 :
              /\ apu[LengthChannels[k]].length_counter.counter =
                    IF unit.data \div (2 ^ (k - 1)) % 2 = 1
                    THEN unit.before[LengthChannels[k]].length_counter.counter
                    ELSE 0
              /\ apu[LengthChannels[k]].length_counter.halt =
                    unit.before[LengthChannels[k]].length_counter.halt
              /\ apu[LengthChannels[k]].enabled =
                    (unit.data \div (2 ^ (k - 1)) % 2 = 1)
        /\ apu.dmc_enabled = (unit.data \div 16 % 2 = 1)
        /\ apu.reader =
              IF unit.data \div 16 % 2 = 1
              THEN IF unit.before.reader.bytes_remaining = 0
                   THEN [unit.before.reader EXCEPT
                           !.irq = FALSE,
                           !.bytes_remaining = unit.before.reader.length,
                           !.has_ended = FALSE]
                   ELSE [unit.before.reader EXCEPT !.irq = FALSE]
              ELSE [unit.before.reader EXCEPT
                      !.irq = FALSE, !.bytes_remaining = 0, !.has_ended = TRUE]
        /\ ~apu.reader.irq
        /\ apu.irq = unit.before.irq
        /\ apu.counter_mode = unit.before.counter_mode
        /\ apu.inhibit_irq = unit.before.inhibit_irq
        /\ apu.even_cycle = unit.before.even_cycle

\* 0x10 was written while a sample of 1 byte was in progress, the sample
\* length register held 17 bytes and pulse 1 was running: the reader was not
\* restarted, and pulse 1's counter was zeroed
C23_Witness ==
    /\ op = "write_control" /\ unit.data = 16
    /\ unit.before.reader.bytes_remaining = 1 /\ unit.before.reader.length = 17
    /\ apu.reader.bytes_remaining = 1 /\ ~apu.reader.has_ended
    /\ unit.before.pulse_channel_1.length_counter.counter > 0
    /\ apu.pulse_channel_1.length_counter.counter = 0

\* C24: when the sample buffer is full at the moment Apu::clock produces a
\* sample, the call completes without a panic, the buffer is as before, and
\* the Apu is as after a call whose push succeeded: the channels clocked
\* and the sample clock t taken back by one sample period.
C24_FullBufferDrops ==
    (op = "apu_clock" /\ unit.ret = 1) =>
        /\ ~panicked
        /\ unit.snap[2] = unit.snap[1]
        /\ apu = [Apu_clock_channels(unit.before, unit.log[1], unit.log[2],
                                     unit.log[3], FALSE, FALSE).apu
                    EXCEPT !.t = unit.before.t + SECONDS_PER_APU_CLOCK
                                 - SECONDS_PER_SAMPLE]

\* a call of Apu::clock pushes a sample exactly when it is an even call and
\* the sample clock has reached 0, and otherwise leaves the buffer alone
SamplePushed ==
    (op = "apu_clock" /\ unit.ret = 0) =>
        /\ ~panicked
        /\ unit.snap[2] = unit.snap[1]
              + (IF ~unit.before.even_cycle
                    /\ unit.before.t + SECONDS_PER_APU_CLOCK >= 0
                 THEN 1 ELSE 0)

\* C25 as amended: at every master cycle boundary, after n completed cycles
\* of System::clock since construction, apu.even_cycle is true exactly when
\* n is odd: Apu::new leaves it false, every cycle toggles it once, and
\* System::reset leaves it alone.
C25_ApuParity ==
    ~panicked => (apu.even_cycle = (unit.n % 2 = 1))

\* three cycles and a reset have gone by
C25_Witness ==
    ~panicked /\ unit.n = 3 /\ unit.data = 1 /\ apu.even_cycle

\* C25 as stated: after n completed cycles apu.even_cycle is true exactly
\* when n is even.
C25_ApuParityStated ==
    ~panicked => (apu.even_cycle = (unit.n % 2 = 0))

\* the front-end has cleared the running flag and waits in the join
Joining == host.front \in {"suspend_join", "close_join"}

CpuClocked == op = "clock" /\ cpu_op.kind # "none"

\* the CPU began an operation in the master cycle just completed
Began == CpuClocked /\ cpu_op.kind \in {"instr", "nmi", "irq"}

\* C27: Cpu::clock begins an operation (an instruction or the service of an
\* interrupt) only with the cycle counter at 0; the operation has a cost n
\* of at least 2 and its call leaves the counter at n - 1; every other call
\* finds the counter above 0, takes one from it, changes nothing else of the
\* CPU and makes no bus access; an operation has had exactly n calls when
\* the next one begins; the counter is never below 0; every opcode of the
\* dispatch table costs at least 2.
C27_CycleCountdown ==
    /\ cpu.cycle_counter >= 0
    /\ \A o \in 0 .. 255 :
          InstrTable[o + 1].instr # "Illegal" => InstrTable[o + 1].cycles >= 2
    /\ CpuClocked /\ cpu_op.kind # "countdown" => prev.cpu.cycle_counter = 0
    /\ Began =>
          /\ cpu_op.cost >= 2
          /\ cpu_after.cycle_counter = cpu_op.cost - 1
          /\ unit.data = cpu_op.cost /\ unit.n = 1
          /\ unit.snap[2] > 0 => unit.snap[1] = unit.snap[2]
    /\ CpuClocked /\ cpu_op.kind = "countdown" =>
          /\ prev.cpu.cycle_counter > 0
          /\ cpu_after = [prev.cpu EXCEPT !.cycle_counter = @ - 1]
          /\ bus = << >>
          /\ unit.n <= unit.data
          /\ unit.n + cpu_after.cycle_counter = unit.data
    /\ op = "clock" /\ cpu_op.kind = "none" => cpu_after = prev.cpu

\* an NMI is serviced that was pending throughout the last cycles of an
\* instruction of cost above 2
C27_Witness ==
    /\ Began /\ cpu_op.kind = "nmi"
    /\ prev.cpu.nmi_pending
    /\ unit.snap[2] > 2 /\ unit.snap[1] = unit.snap[2]

\* the last stack operation, and the one before it
LastOp == unit.log[Len(unit.log)]

OpBefore == unit.log[Len(unit.log) - 1]

\* addresses of page 0x01
StackPage == 256 .. 511

\* C28: a push writes its byte at 0x0100 + S and leaves S one lower modulo
\* 256; a pop leaves S one higher modulo 256 and reads at 0x0100 + the new S;
\* a pop right after a push returns the byte pushed and leaves S as it was
\* before the push, a pop_16 right after a push_16 returns the word pushed
\* and leaves S as it was, from every S; every access of a stack operation
\* is in page 0x01.
C28_StackRoundTrip ==
    /\ \A i \in 1 .. Len(bus) : op # "new" => bus[i][2] \in StackPage
    /\ op = "push" =>
          /\ bus = << <<"w", 256 + LastOp[3], LastOp[2]>> >>
          /\ cpu.s = (LastOp[3] + 255) % 256
    /\ op = "pop" =>
          /\ cpu.s = (LastOp[3] + 1) % 256
          /\ bus = << <<"r", 256 + cpu.s, unit.ret>> >>
    /\ op = "pop" /\ Len(unit.log) > 1 /\ OpBefore[1] = "push" =>
          unit.ret = OpBefore[2] /\ cpu.s = OpBefore[3]
    /\ op = "pop_16" /\ Len(unit.log) > 1 /\ OpBefore[1] = "push_16" =>
          unit.ret = OpBefore[2] /\ cpu.s = OpBefore[3]
    /\ op = "push_16" => Len(bus) = 2 /\ cpu.s = (LastOp[3] + 254) % 256
    /\ op = "pop_16" => Len(bus) = 2 /\ cpu.s = (LastOp[3] + 2) % 256

\* a word pushed with S = 0x00 has come back: the two bytes went to 0x0100
\* and 0x01FF
C28_Witness ==
    /\ op = "pop_16" /\ Len(unit.log) > 1
    /\ OpBefore[1] = "push_16" /\ OpBefore[3] = 0
    /\ unit.ret = 43981 /\ cpu.s = 0
    /\ bus = << <<"r", 511, 205>>, <<"r", 256, 171>> >>

\* the last operation was a CPU write in the interrupt range 0xE000-0xFFFF
IrqWrite == op = "cpu_write" /\ unit.addr >= 57344

\* C29: a write to an even address in 0xE000-0xFFFF leaves the MMC3
\* interrupt disabled and none pending, a write to an odd address there
\* leaves it enabled and changes nothing else; from a disable write until
\* the next enable write interrupt_state() is false, whatever ticks, other
\* writes, acknowledgements and resets come between; a pending interrupt was
\* raised by a scanline tick that found the interrupt enabled.
C29_IrqEnable ==
    /\ IrqWrite /\ unit.addr % 2 = 0 =>
          /\ ~cart.mapper.interrupt_enabled
          /\ ~Cartridge_interrupt_state(cart)
    /\ IrqWrite /\ unit.addr % 2 = 1 =>
          cart.mapper = [unit.before.mapper EXCEPT !.interrupt_enabled = TRUE]
    /\ unit.snap[1] = 1 => ~Cartridge_interrupt_state(cart)
    /\ Cartridge_interrupt_state(cart) => unit.log = <<"on_scanline", TRUE>>
    /\ ~Cartridge_interrupt_state(cart) => unit.log = << >>

\* a disable write has cleared a pending interrupt
C29_Witness ==
    /\ IrqWrite /\ unit.addr % 2 = 0
    /\ Cartridge_interrupt_state(unit.before)
    /\ ~Cartridge_interrupt_state(cart)

\* the offset into the program ROM that a CPU read at addr maps to
PrgOffset(addr) == Mapper_cpu_read(cart.mapper, addr).v

\* the first and last address of a window starting at base map into bank
Window(base, bank) ==
    /\ PrgOffset(base) = bank * 8192
    /\ PrgOffset(base + 8191) = bank * 8192 + 8191

\* the 6-bit bank number in register r
BankIn(r) == cart.mapper.register[r] % 64

SecondToLast == cart.mapper.prg_banks * 2 - 2

\* the layout the PRG mode bit selects is the layout reads see
PrgLayout ==
    /\ IF cart.mapper.prg_bank_mode
       THEN Window(32768, SecondToLast) /\ Window(49152, BankIn(6))
       ELSE Window(32768, BankIn(6)) /\ Window(49152, SecondToLast)
    /\ Window(40960, BankIn(7))
    /\ Window(57344, SecondToLast + 1)

\* the layout before the last operation
PrgLayoutBefore ==
    LET Offset(addr) == Mapper_cpu_read(unit.before.mapper, addr).v
        In(base, bank) ==
            /\ Offset(base) = bank * 8192
            /\ Offset(base + 8191) = bank * 8192 + 8191
        R(r) == unit.before.mapper.register[r] % 64
    IN /\ IF unit.before.mapper.prg_bank_mode
          THEN In(32768, SecondToLast) /\ In(49152, R(6))
          ELSE In(32768, R(6)) /\ In(49152, SecondToLast)
       /\ In(40960, R(7))
       /\ In(57344, SecondToLast + 1)

\* C30: in every reachable MMC3 state, with the PRG mode bit clear
\* 0x8000-0x9FFF maps to the bank in R6 and 0xC000-0xDFFF to the
\* second-to-last bank, with the bit set the two are swapped, and in both
\* modes 0xA000-0xBFFF maps to the bank in R7 and 0xE000-0xFFFF to the last
\* bank.  Stated for the register writes: a CPU write made in a state whose
\* windows are laid out so leaves a state whose windows are laid out so.
C30_PrgLayout ==
    op = "cpu_write" /\ PrgLayoutBefore => PrgLayout

\* what the code keeps: the layout is the selected one after every
\* bank-data write (odd address in 0x8000-0x9FFF)
PrgLayoutAfterData ==
    op = "cpu_write" /\ unit.addr \in 32768 .. 40959 /\ unit.addr % 2 = 1
        => PrgLayout

\* a bank-select write that changes the mode bit leaves the old layout
PrgLayoutStale ==
    /\ op = "cpu_write" /\ unit.addr = 32768
    /\ cart.mapper.prg_bank_mode # unit.before.mapper.prg_bank_mode
    /\ cart.mapper.prg_bank = unit.before.mapper.prg_bank
    /\ BankIn(6) # SecondToLast

\* the reader before the last operation
ReaderBefore == unit.before.reader

\* the last operation was a clock that found the byte stream complete at a
\* byte boundary
StreamCompleted ==
    /\ op = "dmc_clock"
    /\ ReaderBefore.bits_remaining = 0
    /\ ~ReaderBefore.has_ended
    /\ ReaderBefore.bytes_remaining = 0

\* the reader plays from the programmed address with the programmed length
Restarted(r) ==
    ~r.has_ended /\ r.current_pos = r.address /\ r.bytes_remaining = r.length

\* C31: a clock that finds the byte stream complete at a byte boundary
\* restarts the reader from the programmed address and length (loop set: the
\* first byte of the new playback is fetched in the same clock), or sets the
\* DMC IRQ flag (loop clear, IRQ enabled), or leaves the reader idle; a clock
\* of an idle reader fetches nothing; a write to 0x4015 with bit 4 set on an
\* idle reader restarts it from the programmed address with the programmed
\* length.
C31_StreamEnd ==
    /\ StreamCompleted /\ ReaderBefore.loop_enabled /\ ~panicked =>
          /\ ~apu.reader.has_ended
          /\ unit.log = <<apu.reader.address>>
          /\ apu.reader.bytes_remaining = apu.reader.length - 1
    /\ StreamCompleted /\ ~ReaderBefore.loop_enabled =>
          /\ apu.reader.has_ended
          /\ apu.reader.irq = (ReaderBefore.irq_enabled \/ ReaderBefore.irq)
    /\ op = "dmc_clock" /\ ReaderBefore.has_ended =>
          unit.ret = 0 /\ apu.reader.has_ended
    /\ op = "write_control" /\ unit.n = 16 /\ ReaderBefore.has_ended =>
          Restarted(apu.reader)

\* an idle reader whose stream ran to its end is enabled again by 0x4015
DmcEnabledAgain ==
    /\ op = "write_control" /\ unit.n = 16 /\ ReaderBefore.has_ended
    /\ unit.snap[2] > 0

\* C37: bytes_remaining is never decremented at 0, and a playback that runs
\* to its end has fetched exactly as many bytes as the programmed length,
\* with the loop flag set and with it clear.
C37_BytesFetched ==
    /\ unit.data = 0
    /\ ~panicked
    /\ apu.reader.bytes_remaining <= apu.reader.length
    /\ unit.snap[2] > 0 => unit.snap[1] = unit.snap[2]

\* what the code keeps: a playback that ends with the loop flag set has
\* fetched exactly its length
LoopFetchesLength ==
    StreamCompleted /\ ReaderBefore.loop_enabled /\ ~panicked =>
        unit.snap = <<ReaderBefore.length, ReaderBefore.length>>

\* a playback that ends with the loop flag clear has fetched one byte more
\* than its length, in the build without overflow checks
NoLoopFetchesOneMore ==
    StreamCompleted /\ ~ReaderBefore.loop_enabled /\ ~panicked =>
        /\ unit.snap = <<ReaderBefore.length + 1, ReaderBefore.length>>
        /\ apu.reader.bytes_remaining = 65535

\* the mapper raised its interrupt under a set I flag, no IRQ has been
\* serviced since, and the program has cleared I
IrqOwed == unit.data = 1 /\ ~contains(cpu.p, FLAG_I)

\* an IRQ service sequence began in the master cycle just completed
IrqServiced == op = "clock" /\ cpu_op.kind = "irq"

\* C32: a mapper interrupt is never lost: once MMC3 has raised its interrupt
\* with the CPU's I flag set and the program has cleared I without a write
\* to 0xE000, the CPU eventually services an IRQ.
C32_IrqNotLost == IrqOwed ~> IrqServiced

\* what the code keeps: a master cycle leaves no mapper interrupt pending in
\* the cartridge, taken or not
MapperLineConsumed == op = "clock" => ~Cartridge_interrupt_state(cart)

\* the program loops with I clear, the interrupt raised under I gone from
\* the mapper and from the CPU's latch
IrqLost ==
    /\ IrqOwed /\ cpu.pc = 32775
    /\ ~Cartridge_interrupt_state(cart) /\ ~cpu.irq_pending

\* C33: after System::reset the first thing the CPU executes is the
\* instruction at the reset vector: the reset leaves no NMI or IRQ latched,
\* no cycles of the instruction in flight to count down, and no DMA
\* transfer active.
C33_ResetClean ==
    op = "reset" =>
        /\ cpu.cycle_counter = 0
        /\ ~cpu.nmi_pending /\ ~cpu.irq_pending
        /\ ~dma.active

\* a reset in mid-instruction leaves the cycles of the instruction
ResetKeepsCountdown == op = "reset" /\ cpu.cycle_counter > 0

\* a reset leaves a latched NMI, or a latched IRQ
ResetKeepsNmi == op = "reset" /\ cpu.nmi_pending

ResetKeepsIrq == op = "reset" /\ cpu.irq_pending

\* a reset during a DMA transfer leaves the transfer active
ResetKeepsDma == dma.active /\ System_reset(Machine).dma = dma

\* C34: after any sequence of writes to 0x4017 the frame sequencer keeps
\* running: its cycle count never exceeds the period of the mode selected
\* (and so comes back to 0 within one period, with the quarter-frame and
\* half-frame events of the sequence).
C34_SequencerRuns == apu.cycles <= SequencePeriod(apu)

\* the sequencer in 4-step mode counts on past the end of the 4-step
\* sequence: no call compares equal to 14915 again
SequencerStalled ==
    /\ op = "apu_clock" /\ ~apu.counter_mode
    /\ apu.cycles > 14915 /\ unit.before.cycles > 14915
    /\ apu.cycles = unit.before.cycles + (IF apu.even_cycle THEN 1 ELSE 0)
    /\ unit.n >= 4

\* what the code keeps: without a write the count stays below the period
RunsWithoutSwitch == unit.snap[1] = 0 => apu.cycles < SequencePeriod(apu)

\* C35: while a pulse, triangle or noise channel is disabled through 0x4015
\* its length counter stays 0, whatever other APU registers are written in
\* the meantime (and so its bit of the status byte reads 0).
C35_DisabledStaysSilent ==
    \A k \in DOMAIN LengthChannels :
        ~apu[LengthChannels[k]].enabled
            => apu[LengthChannels[k]].length_counter.counter = 0

\* a read of 0x4015 returns the bit of a channel that 0x4015 has disabled
DisabledReadsActive ==
    /\ op = "read_status"
    /\ \E k \in DOMAIN LengthChannels :
          /\ ~unit.before[LengthChannels[k]].enabled
          /\ (unit.snap[1] \div (2 ^ (k - 1))) % 2 = 1

\* what the code keeps: the write of 0x4015 that disables a channel leaves
\* its counter at 0
DisableClears ==
    op = "write_control"
        => \A k \in DOMAIN LengthChannels :
               ~apu[LengthChannels[k]].enabled
                   => apu[LengthChannels[k]].length_counter.counter = 0

\* the offsets the mapper gives the lower and the upper 1-KiB window of
\* the pair at PPU address base
LowerWindow(base) == Mapper_ppu_read(cart.mapper, base).v
UpperWindow(base) == Mapper_ppu_read(cart.mapper, base + 1024).v

\* the PPU addresses of the pairs that R0 and R1 control
PairBases == IF cart.mapper.chr_inversion THEN <<4096, 6144>> ELSE <<0, 2048>>

\* the last operation was a bank-data write
BankDataWritten == op = "cpu_write" /\ unit.addr = 32769

\* C36: after a bank-data write the two 1-KiB windows controlled by R0, and
\* the two controlled by R1, form one contiguous block: the offset of the
\* upper window is the offset of the lower window plus 0x400, for every
\* register value and in both CHR inversion settings.
C36_ChrPairs ==
    BankDataWritten =>
        \A k \in 1 .. 2 : UpperWindow(PairBases[k]) = LowerWindow(PairBases[k]) + 1024

\* what the code keeps: the pair of an even register value is contiguous
\* and 2-KiB aligned
EvenPairsContiguous ==
    BankDataWritten =>
        \A k \in 1 .. 2 :
            cart.mapper.register[k - 1] % 2 = 0
                => /\ UpperWindow(PairBases[k]) = LowerWindow(PairBases[k]) + 1024
                   /\ LowerWindow(PairBases[k]) = cart.mapper.register[k - 1] * 1024

\* the pair of an odd register value: the upper window lies 0x800 above the
\* lower one
OddPairsApart ==
    BankDataWritten =>
        \A k \in 1 .. 2 :
            cart.mapper.register[k - 1] % 2 = 1
                => /\ LowerWindow(PairBases[k]) = (cart.mapper.register[k - 1] - 1) * 1024
                   /\ UpperWindow(PairBases[k]) = LowerWindow(PairBases[k]) + 2048

\* an odd value has been written to R1 with the CHR inversion set
OddInverted ==
    /\ BankDataWritten /\ cart.mapper.chr_inversion
    /\ cart.mapper.register[1] = 3
    /\ UpperWindow(6144) = 4096 /\ LowerWindow(6144) = 2048

\* the CPU began the instruction of a dispatch-table entry that is not a
\* conditional branch
PlainInstruction ==
    /\ CpuClocked /\ cpu_op.kind = "instr"
    /\ InstrTable[cpu_op.opcode + 1].instr \notin BranchInstrs

\* C38: every instruction that is not a conditional branch costs its base
\* cycle count, plus one cycle at most, and that one only when its entry is
\* flagged as affected by page crossing; LAS absolute,Y, which is not
\* flagged, costs 4.
C38_NoBranchCycle ==
    PlainInstruction =>
        LET entry == InstrTable[cpu_op.opcode + 1]
        IN /\ cpu_op.cost >= entry.cycles
           /\ cpu_op.cost <= entry.cycles + BoolToInt(entry.page)

\* what the code keeps: every instruction other than the branches and LAS
\* costs its base count plus at most the page-cross cycle of a flagged entry
OnlyLasPaysMore ==
    PlainInstruction /\ InstrTable[cpu_op.opcode + 1].instr # "Las" =>
        LET entry == InstrTable[cpu_op.opcode + 1]
        IN /\ cpu_op.cost >= entry.cycles
           /\ cpu_op.cost <= entry.cycles + BoolToInt(entry.page)

\* LAS absolute,Y always costs 5
LasCostsFive ==
    PlainInstruction /\ InstrTable[cpu_op.opcode + 1].instr = "Las"
        => cpu_op.cost = 5

\* LAS has run with Y = 0, without a page cross
LasWithoutPageCross ==
    /\ PlainInstruction /\ InstrTable[cpu_op.opcode + 1].instr = "Las"
    /\ cpu.y = 0 /\ cpu_op.cost = 5

\* C39: a call of update_controller_state made while the latch is clear
\* changes neither shift register, and a write to 0x4016 with bit 0 clear
\* while the latch is clear changes nothing; so, once the strobe has gone
\* low, the reads of a port return the bits of the byte buffered at that
\* write, most significant first, and 0 from the ninth read on, however
\* the updates interleave with the reads.
C39_UpdatesHidden ==
    /\ (op = "update_state" /\ ~unit.before.latch) =>
          /\ controller.controller = unit.before.controller
          /\ ~controller.latch
    /\ (op = "write" /\ unit.data = 0 /\ ~unit.before.latch) =>
          controller = unit.before
    /\ (unit.n > 0 /\ ~controller.latch) =>
          \A p \in {1, 2} :
              \A k \in 1 .. Len(unit.bits[p]) :
                  unit.bits[p][k] =
                      IF k <= 8 THEN BitOf(unit.snap[p], 8 - k) ELSE 0

\* 0x90 and 0x6F buffered at the strobe, a read of port B, an update that
\* swaps the two bytes, and two more reads of port B: 0, 1, 1
C39_Witness ==
    /\ op = "read" /\ unit.addr = PortB /\ ~controller.latch
    /\ unit.n = 1 /\ unit.snap = <<144, 111>>
    /\ controller.buffer = <<111, 144>>
    /\ unit.bits = << << >>, <<0, 1, 1>> >>
    /\ controller.controller = <<144, 120>>

\* C40: no call of Sweep::clock takes the target period below 0: on both
\* pulse channels the target P - (P >> shift), less 1 on channel 1, is
\* computed without wraparound.
C40_TargetNoUnderflow == op = "sweep_clock" => unit.snap = <<0, 0>>

\* what the code keeps: P - (P >> shift) itself is never below 0, so the
\* target of channel 2 never wraps
Channel2NoUnderflow == op = "sweep_clock" => unit.snap[2] = 0

\* channel 1 goes below 0 exactly when negate is set and P - (P >> shift)
\* is 0
Channel1Underflow ==
    op = "sweep_clock" =>
        LET s == unit.before[1]
        IN (unit.snap[1] = 1)
              <=> (s.negate /\ s.sequencer.period = Shr(s.sequencer.period, s.shift))

\* in a build without overflow checks the target of channel 1 has wrapped
\* to 0xFFFF with a non-zero timer period
TargetWrapped ==
    /\ op = "sweep_clock" /\ ~panicked /\ unit.snap[1] = 1
    /\ apu[1].target_period = 65535
    /\ unit.before[1].sequencer.period = 2047

=============================================================================
